---- MODULE Spec2Model ----
(***************************************************************************)
(* Tenant-isolated vector retrieval and answer synthesis of cloudable.ai:  *)
(* the query_knowledge_base variants, the mock /kb/query route and the     *)
(* ingestion functions, as state machines over a shared vector store.      *)
(*                                                                         *)
(* Texts are sequences of one-character strings.  Python values that may   *)
(* be None or a non-string are records [type, val].  Similarity scores and *)
(* cosine distances are integers in hundredths (0.2 is 20).                *)
(***************************************************************************)
EXTENDS Integers, Sequences, FiniteSets, TLC

VARIABLES store, inv

vars == <<store, inv>>

(***************************************************************************)
(* Bounds of the model.                                                    *)
(***************************************************************************)
\* stored rows over all tables
MaxRows == 2
\* how far past the length limit the padded query texts go
PadOver == 1
\* stored rows of the partition in the ranking runs
MaxRankRows == 4
\* the sections of the longest document ingested
MaxChunks == 5
\* the longest text split with small chunk sizes, and the largest such size
MaxSplitLen == 7
MaxSplitSize == 4
\* entries into summarize_large_document followed in one summarization
MaxEntries == 3
\* documents uploaded to the bucket in one run of the event chain
MaxUploads == 2
MaxSlugLen == 2
MaxSummaries == 2
MaxCustomRoles == 2
MaxAssignments == 2
\* the lines of the longest document chunked on its own
MaxDocLines == 3
\* stored rows over all tables in the runs with documents of many sections
MaxLargeRows == 12
\* stored rows over all tables in the runs with a text over the budget
MaxBudgetRows == 1

(***************************************************************************)
(* Characters and texts.                                                   *)
(***************************************************************************)
LowerLetters ==
  {"a","b","c","d","e","f","g","h","i","j","k","l","m",
   "n","o","p","q","r","s","t","u","v","w","x","y","z"}

UpperLetters ==
  {"A","B","C","D","E","F","G","H","I","J","K","L","M",
   "N","O","P","Q","R","S","T","U","V","W","X","Y","Z"}

Digits == {"0","1","2","3","4","5","6","7","8","9"}

\* str.strip() with no argument removes these from both ends
Whitespace == {" ", "\t", "\n", "\r"}

\* str.lower() on one character
LowerChar(c) ==
  CASE c = "A" -> "a" [] c = "B" -> "b" [] c = "C" -> "c" [] c = "D" -> "d"
    [] c = "E" -> "e" [] c = "F" -> "f" [] c = "G" -> "g" [] c = "H" -> "h"
    [] c = "I" -> "i" [] c = "J" -> "j" [] c = "K" -> "k" [] c = "L" -> "l"
    [] c = "M" -> "m" [] c = "N" -> "n" [] c = "O" -> "o" [] c = "P" -> "p"
    [] c = "Q" -> "q" [] c = "R" -> "r" [] c = "S" -> "s" [] c = "T" -> "t"
    [] c = "U" -> "u" [] c = "V" -> "v" [] c = "W" -> "w" [] c = "X" -> "x"
    [] c = "Y" -> "y" [] c = "Z" -> "z" [] OTHER -> c

Lower(s) == [i \in 1..Len(s) |-> LowerChar(s[i])]

\* str.strip()
Strip(s) ==
  IF \A i \in 1..Len(s) : s[i] \in Whitespace THEN << >>
  ELSE LET first == CHOOSE i \in 1..Len(s) :
                      /\ s[i] \notin Whitespace
                      /\ \A j \in 1..(i-1) : s[j] \in Whitespace
           last  == CHOOSE i \in 1..Len(s) :
                      /\ s[i] \notin Whitespace
                      /\ \A j \in (i+1)..Len(s) : s[j] \in Whitespace
       IN SubSeq(s, first, last)

\* html.escape(c, quote=True) on one character
EscapeChar(c) ==
  CASE c = "&"  -> <<"&","a","m","p",";">>
    [] c = "<"  -> <<"&","l","t",";">>
    [] c = ">"  -> <<"&","g","t",";">>
    [] c = "\"" -> <<"&","q","u","o","t",";">>
    [] c = "'"  -> <<"&","#","x","2","7",";">>
    [] OTHER    -> <<c>>

RECURSIVE HtmlEscape(_)
\* html.escape(s): every character replaced by its entity, in order
HtmlEscape(s) ==
  IF Len(s) = 0 THEN << >>
  ELSE IF Len(s) = 1 THEN EscapeChar(s[1])
  ELSE LET h == Len(s) \div 2
       IN HtmlEscape(SubSeq(s, 1, h)) \o HtmlEscape(SubSeq(s, h+1, Len(s)))

\* Python's  sub in s
Contains(s, sub) ==
  \E i \in 1..(Len(s) - Len(sub) + 1) : SubSeq(s, i, i + Len(sub) - 1) = sub

(***************************************************************************)
(* Python values.                                                          *)
(***************************************************************************)
PyStr(s) == [type |-> "str", val |-> s]
PyNone == [type |-> "none", val |-> << >>]
PyInt(d) == [type |-> "int", val |-> <<d>>]

\* Python truthiness: None, "" and 0 are false
Truthy(v) ==
  CASE v.type = "str" -> v.val # << >>
    [] v.type = "int" -> v.val # <<"0">>
    [] OTHER -> FALSE

(***************************************************************************)
(* validate_input                                                          *)
(***************************************************************************)
IdChars == LowerLetters \cup UpperLetters \cup Digits \cup {"_", "-"}

IdMinLen == 1
IdMaxLen == 20

\* ^[a-zA-Z0-9_-]{1,20}$ anchored at both ends of the text
FullIdMatchStrict(s) ==
  /\ Len(s) >= IdMinLen
  /\ Len(s) <= IdMaxLen
  /\ \A i \in 1..Len(s) : s[i] \in IdChars

\* re.match(r'^[a-zA-Z0-9_-]{1,20}$', s): in Python '$' matches at the end
\* of the text and also just before a newline that ends the text
FullIdMatch(s) ==
  \/ FullIdMatchStrict(s)
  \/ /\ Len(s) >= 1
     /\ s[Len(s)] = "\n"
     /\ FullIdMatchStrict(SubSeq(s, 1, Len(s) - 1))

ErrNone == "none"

TenantError(tenant_id) ==
  IF ~Truthy(tenant_id) \/ tenant_id.type # "str"
    THEN "Tenant ID is required and must be a string"
  ELSE IF ~FullIdMatch(tenant_id.val) THEN "Invalid tenant ID format"
  ELSE ErrNone

CustomerError(customer_id) ==
  IF customer_id = PyNone THEN ErrNone
  ELSE IF ~Truthy(customer_id) \/ customer_id.type # "str"
    THEN "Customer ID must be a string"
  ELSE IF ~FullIdMatch(customer_id.val) THEN "Invalid customer ID format"
  ELSE ErrNone

\* "; ".join(errors) of the two checks
JoinErrors(tenant_error, customer_error) ==
  IF customer_error = ErrNone THEN tenant_error
  ELSE IF tenant_error = ErrNone THEN customer_error
  ELSE CASE tenant_error = "Invalid tenant ID format"
              /\ customer_error = "Invalid customer ID format" ->
              "Invalid tenant ID format; Invalid customer ID format"
         [] tenant_error = "Invalid tenant ID format" ->
              "Invalid tenant ID format; Customer ID must be a string"
         [] customer_error = "Invalid customer ID format" ->
              "Tenant ID is required and must be a string; Invalid customer ID format"
         [] OTHER ->
              "Tenant ID is required and must be a string; Customer ID must be a string"

\* validate_input(tenant_id, customer_id): the two checks, errors collected
validate_input(tenant_id, customer_id) ==
  [valid |-> TenantError(tenant_id) = ErrNone /\ CustomerError(customer_id) = ErrNone,
   tenant_error |-> TenantError(tenant_id),
   customer_error |-> CustomerError(customer_id),
   error |-> JoinErrors(TenantError(tenant_id), CustomerError(customer_id))]

(***************************************************************************)
(* Tenants, the environment and the vector store.                          *)
(***************************************************************************)
acme == <<"a","c","m","e">>
globex == <<"g","l","o","b","e","x">>
initech == <<"i","n","i","t","e","c","h">>
umbrella == <<"u","m","b","r","e","l","l","a">>

\* the allow-list of the mock handler, in list order
valid_tenants == <<acme, globex, initech, umbrella>>

\* tenants whose table kb_vectors_<tenant> the setup script creates by default
TableTenants == {acme, globex}

\* tenants with a document bucket (BUCKET_<TENANT> set, bucket present)
BucketTenants == {acme, globex, initech}

TablePrefix == <<"k","b","_","v","e","c","t","o","r","s","_">>

\* f"kb_vectors_{tenant_id}"
TableName(tenant_text) == TablePrefix \o tenant_text

Tables == {TableName(t) : t \in TableTenants}

\* str.upper() on one character
UpperChar(c) ==
  IF c \in LowerLetters THEN CHOOSE u \in UpperLetters : LowerChar(u) = c ELSE c

Upper(s) == [i \in 1..Len(s) |-> UpperChar(s[i])]

\* os.environ.get(f'BUCKET_{tenant_id.upper()}') is set
BucketConfigured(tenant_text) ==
  \E t \in BucketTenants : Upper(tenant_text) = Upper(t)

\* embedding vectors, and the cosine distance between two of them
Vecs == {"v0", "v1", "v2"}

CosDistance(v, w) ==
  IF v = w THEN 0
  ELSE IF {v, w} = {"v0", "v1"} THEN 50
  ELSE IF {v, w} = {"v0", "v2"} THEN 90
  ELSE 150

ChunkIds == 1..MaxRows

AllRows(st) == UNION {st[t] : t \in DOMAIN st}

RowCount(st) == Cardinality(AllRows(st))

UsedIds(st) == {r.id : r \in AllRows(st)}

\* the sequences over the set S that hold each element once
Perms(S) ==
  {p \in [1..Cardinality(S) -> S] : \A i, j \in 1..Cardinality(S) : i # j => p[i] # p[j]}

Min(a, b) == IF a <= b THEN a ELSE b
Max(a, b) == IF a >= b THEN a ELSE b

\* ORDER BY embedding <=> q LIMIT k: the rows by ascending distance, rows
\* at the same distance in any order, cut to k
NearestRows(rows, q, k) ==
  {SubSeq(p, 1, Min(k, Len(p))) :
     p \in {p \in Perms(rows) :
              \A i \in 1..(Len(p) - 1) :
                 CosDistance(p[i].embedding, q) <= CosDistance(p[i+1].embedding, q)}}

(***************************************************************************)
(* One invocation: what it was given, the external calls it made in order, *)
(* the rows the search returned, and its response.                         *)
(***************************************************************************)
\* an external call, a log statement or a validation; text is the query text
\* it was given, table the table a statement names (for a passed validation,
\* the table of the tenant_id that passed)
Ev(kind, text, table) == [kind |-> kind, text |-> text, table |-> table]

NoText == << >>

Resp(status, answer, error) ==
  [status |-> status, answer |-> answer, error |-> error,
   has_sources_count |-> FALSE, sources_count |-> 0,
   confidence_scores |-> << >>, results |-> << >>, context |-> << >>,
   chunks_processed |-> 0, has_chunks_failed |-> FALSE, chunks_failed |-> 0,
   raw |-> << >>]

\* the error response whose body carries, after the message, str(e) of the
\* exception caught
RespWithException(status, error, text) == [Resp(status, "none", error) EXCEPT !.raw = text]

\* what the collaborators answer in one invocation: the embedding of the
\* query (or a failure), the rows of the search in the order returned (or a
\* failure), the completion (or a failure), and the message of the exception
\* the failing call raises
Answers(emb_ok, emb, search_ok, found, comp_ok, err) ==
  [emb_ok |-> emb_ok, emb |-> emb, search_ok |-> search_ok, found |-> found,
   comp_ok |-> comp_ok, err |-> err]

\* the message of the exception of a service that cannot be reached
ServiceError == <<"An error occurred when calling the operation">>

\* the message of the store's exception for a statement on a missing table
MissingRelation(table) == <<"relation \"">> \o table \o <<"\" does not exist">>

\* the message of the exception of .strip() on a value that is not a string
NotAString == <<"object has no attribute 'strip'">>

Out(trace, found, resp) ==
  [trace |-> trace, found |-> found, resp |-> resp, emb |-> "none", failed |-> {},
   attempted |-> << >>]

\* the outcome o of an ingestion of these chunks: of each its row and
\* whether its insert "stored" it, "failed", was refused because a row of
\* its id exists ("conflict"), or was never reached ("skipped")
Attempting(o, chunks) == [o EXCEPT !.attempted = chunks]

\* the outcome o of an invocation in which the call of this kind failed
Failing(o, kind) == [o EXCEPT !.failed = @ \cup {kind}]

\* the outcome o of an invocation whose query was embedded as the vector v
Embedded(o, v) == [o EXCEPT !.emb = v]

\* the outcome o with the events pre put before its trace
After(pre, o) == [o EXCEPT !.trace = pre \o @]

NoInv ==
  [op |-> "idle", tenant |-> PyNone, customer |-> PyNone, query |-> PyNone,
   trace |-> << >>, found |-> << >>, emb |-> "none", failed |-> {}, attempted |-> << >>,
   resp |-> Resp(0, "none", "none")]

Invocation(op, tenant, customer, query, o) ==
  [op |-> op, tenant |-> tenant, customer |-> customer, query |-> query,
   trace |-> o.trace, found |-> o.found, emb |-> o.emb, failed |-> o.failed,
   attempted |-> o.attempted,
   resp |-> o.resp]

\* a metadata map: tenant and section are PyNone when the key is absent
Meta(tenant, source, section) == [tenant |-> tenant, source |-> source, section |-> section]

\* 1 - (embedding <=> :embedding), in hundredths
Similarity(row, q) == 100 - CosDistance(row.embedding, q)

IDontKnowNone == "I don't know. I couldn't find any relevant information in the knowledge base."
IDontKnowIrrelevant == "I don't know. The information I found doesn't seem relevant to your question."

(***************************************************************************)
(* infras/lambdas/kb_manager/main.py: query_knowledge_base                 *)
(***************************************************************************)
QueryMinLen == 3
QueryMaxLen == 1000
MainThreshold == 20
MainSearchLimit == 5
MainContextLimit == 3

\* lines 279-295: the records as the result list, in the order returned
MainResults(found, q) ==
  [i \in 1..Len(found) |->
     [text |-> found[i].chunk_text, metadata |-> found[i].metadata,
      score |-> Similarity(found[i], q)]]

\* lines 300-313: the texts at or above the threshold, else the top text
MainRelevantContent(results) ==
  LET kept == SelectSeq(results, LAMBDA r : r.score >= MainThreshold)
      texts == [i \in 1..Len(kept) |-> kept[i].text]
  IN IF texts = << >> /\ results # << >> /\ results[1].text # << >>
       THEN <<results[1].text>>
       ELSE texts

\* a variant of line 318 that joins every relevant text
MainContextUncut(relevant_content) == relevant_content

\* line 318: relevant_content[:3], the texts joined into the prompt
MainContext(relevant_content) ==
  SubSeq(relevant_content, 1, Min(MainContextLimit, Len(relevant_content)))

\* lines 279-356: from the returned records to the response
MainSynthesize(sanitized_query, x) ==
  LET found == x.found
      results == MainResults(found, x.emb)
      relevant_content == MainRelevantContent(results)
      context == MainContext(relevant_content)
  IN IF results = << >> THEN Out(<< >>, found, Resp(200, IDontKnowNone, "none"))
     ELSE IF relevant_content = << >>
       THEN Out(<< >>, found, Resp(200, IDontKnowIrrelevant, "none"))
     ELSE IF ~x.comp_ok
       THEN Failing(Out(<<Ev("complete", sanitized_query, NoText)>>, found,
                        RespWithException(500, "Failed to query knowledge base", x.err)),
                    "complete")
     ELSE Out(<<Ev("complete", sanitized_query, NoText)>>, found,
              [Resp(200, "llm", "none") EXCEPT
                 !.has_sources_count = TRUE,
                 !.sources_count = Len(results),
                 !.confidence_scores =
                    [i \in 1..Min(MainContextLimit, Len(results)) |-> results[i].score],
                 !.context = context])

\* lines 195-277: the embedding, then the search of kb_vectors_<tenant_id>
MainRetrieve(tenant_id, sanitized_query, x) ==
  IF ~x.emb_ok
    THEN Failing(Out(<<Ev("embed", sanitized_query, NoText)>>, << >>,
                     RespWithException(500, "Failed to generate embedding", x.err)),
                 "embed")
  ELSE IF ~x.search_ok
    THEN Failing(Embedded(Out(<<Ev("embed", sanitized_query, NoText),
                                Ev("search", NoText, TableName(tenant_id.val))>>, << >>,
                              RespWithException(500, "Database query error", x.err)),
                          x.emb),
                 "search")
  ELSE After(<<Ev("embed", sanitized_query, NoText),
               Ev("search", NoText, TableName(tenant_id.val))>>,
             Embedded(MainSynthesize(sanitized_query, x), x.emb))

\* lines 187-191: "short", "long" or "ok"
MainQueryCheck(query) ==
  IF query = << >> \/ Len(Strip(query)) < QueryMinLen THEN "short"
  ELSE IF Len(query) > QueryMaxLen THEN "long"
  ELSE "ok"

\* a variant of lines 187-196 that asks for the embedding before it checks
\* the query's length
MainEmbedBeforeChecks(tenant_id, query, x) ==
  IF query.type # "str" /\ Truthy(query)
    THEN Out(<< >>, << >>,
             RespWithException(500, "Failed to query knowledge base", NotAString))
  ELSE IF MainQueryCheck(query.val) = "short"
    THEN Out(<<Ev("embed", HtmlEscape(Strip(query.val)), NoText)>>, << >>,
             Resp(400, "none", "Query must be at least 3 characters"))
  ELSE IF MainQueryCheck(query.val) = "long"
    THEN Out(<<Ev("embed", HtmlEscape(Strip(query.val)), NoText)>>, << >>,
             Resp(400, "none", "Query too long (max 1000 characters)"))
  ELSE MainRetrieve(tenant_id, HtmlEscape(Strip(query.val)), x)

\* lines 187-193 and on: the query checks, the escape, then the retrieval
MainAfterValidation(tenant_id, query, x) ==
  IF query.type # "str" /\ Truthy(query)
    THEN Out(<< >>, << >>,
             RespWithException(500, "Failed to query knowledge base", NotAString))
  ELSE IF MainQueryCheck(query.val) = "short"
    THEN Out(<< >>, << >>, Resp(400, "none", "Query must be at least 3 characters"))
  ELSE IF MainQueryCheck(query.val) = "long"
    THEN Out(<< >>, << >>, Resp(400, "none", "Query too long (max 1000 characters)"))
  ELSE MainRetrieve(tenant_id, HtmlEscape(Strip(query.val)), x)

\* query_knowledge_base(tenant_id, customer_id, query); x holds what the
\* embedding, the search and the completion answer
MainQueryKnowledgeBase(tenant_id, customer_id, query, x) ==
  LET validation == validate_input(tenant_id, customer_id)
  IN IF ~validation.valid
       THEN Out(<<Ev("validate_fail", NoText, NoText)>>, << >>,
                Resp(400, "none", validation.error))
       ELSE After(<<Ev("validate_ok", NoText, TableName(tenant_id.val))>>,
                  MainAfterValidation(tenant_id, query, x))

\* handler, route POST /kb/query (lines 404-411, 467-478)
MainHandleKbQuery(tenant_id, customer_id, query, x) ==
  IF ~Truthy(tenant_id) \/ ~Truthy(customer_id) \/ ~Truthy(query)
    THEN Out(<<Ev("log", query.val, NoText)>>, << >>,
             Resp(400, "none", "tenant_id, customer_id, and query are required"))
    ELSE After(<<Ev("log", query.val, NoText)>>,
               MainQueryKnowledgeBase(tenant_id, customer_id, query, x))

(***************************************************************************)
(* cloudable_clean/infras/lambdas/kb_manager/main.py: query_knowledge_base *)
(***************************************************************************)
CleanThreshold == 70
CleanSearchLimit == 3

\* lines 326-342: the records at or above the threshold, in the order returned
CleanResults(found, q) ==
  LET all == [i \in 1..Len(found) |->
                [text |-> found[i].chunk_text, metadata |-> found[i].metadata,
                 score |-> Similarity(found[i], q)]]
  IN SelectSeq(all, LAMBDA r : ~(r.score < CleanThreshold))

EmptyAnswer ==
  [Resp(200, IDontKnowNone, "none") EXCEPT !.has_sources_count = TRUE]

\* lines 291-372: the search of kb_vectors_<tenant_id> and the answer
CleanSearchAndAnswer(tenant_id, query, x) ==
  IF ~x.search_ok
    THEN Failing(Out(<<Ev("search", NoText, TableName(tenant_id.val))>>, << >>, EmptyAnswer),
                 "search")
  ELSE LET results == CleanResults(x.found, x.emb)
       IN Out(<<Ev("search", NoText, TableName(tenant_id.val)),
                Ev("log", query.val, NoText)>>, x.found,
              IF results = << >> THEN EmptyAnswer
              ELSE [Resp(200, "Based on the knowledge base, I found relevant information", "none")
                      EXCEPT !.has_sources_count = TRUE,
                             !.sources_count = Len(results),
                             !.confidence_scores = [i \in 1..Len(results) |-> results[i].score],
                             !.results = results])

\* lines 270-289: the bucket check, the query checks, the escape, the embedding
CleanAfterValidation(tenant_id, query, x) ==
  IF ~BucketConfigured(tenant_id.val)
    THEN Out(<< >>, << >>, Resp(403, "none", "Invalid tenant ID"))
  ELSE IF query.type # "str" /\ Truthy(query)
    THEN Out(<< >>, << >>,
             RespWithException(500, "Failed to query knowledge base", NotAString))
  ELSE IF MainQueryCheck(query.val) = "short"
    THEN Out(<< >>, << >>, Resp(400, "none", "Query must be at least 3 characters"))
  ELSE IF MainQueryCheck(query.val) = "long"
    THEN Out(<< >>, << >>, Resp(400, "none", "Query too long (max 1000 characters)"))
  ELSE IF ~x.emb_ok
    THEN Failing(Out(<<Ev("embed", HtmlEscape(Strip(query.val)), NoText)>>, << >>,
                     RespWithException(500, "Failed to generate embedding", x.err)),
                 "embed")
  ELSE After(<<Ev("embed", HtmlEscape(Strip(query.val)), NoText)>>,
             Embedded(CleanSearchAndAnswer(tenant_id, query, x), x.emb))

\* query_knowledge_base(tenant_id, customer_id, query), lines 262-376
CleanQueryKnowledgeBase(tenant_id, customer_id, query, x) ==
  LET validation == validate_input(tenant_id, customer_id)
  IN IF ~validation.valid
       THEN Out(<<Ev("validate_fail", NoText, NoText)>>, << >>,
                Resp(400, "none", validation.error))
       ELSE After(<<Ev("validate_ok", NoText, TableName(tenant_id.val))>>,
                  CleanAfterValidation(tenant_id, query, x))

\* handler, route POST /kb/query (lines 532-539, 601-618)
CleanHandleKbQuery(user_id, tenant_id, customer_id, query, x) ==
  IF ~Truthy(user_id)
    THEN Out(<<Ev("log", query.val, NoText)>>, << >>,
             Resp(403, "none", "Unauthorized: User ID required"))
  ELSE IF ~Truthy(tenant_id) \/ ~Truthy(customer_id) \/ ~Truthy(query)
    THEN Out(<<Ev("log", query.val, NoText)>>, << >>,
             Resp(400, "none", "tenant_id, customer_id, and query are required"))
  ELSE After(<<Ev("log", query.val, NoText)>>,
             CleanQueryKnowledgeBase(tenant_id, customer_id, query, x))

\* handler, route POST /chat with use_kb (lines 628-666): customer_id is what
\* body.get('customer_id', 'default') gave
CleanHandleChat(tenant_id, customer_id, message, x) ==
  IF ~Truthy(tenant_id) \/ ~Truthy(message)
    THEN Out(<<Ev("log", message.val, NoText)>>, << >>,
             Resp(400, "none", "tenant_id and message are required"))
  ELSE LET o == CleanQueryKnowledgeBase(tenant_id, customer_id, message, x)
           docs == [i \in 1..Len(o.resp.results) |->
                      [text |-> << >>, metadata |-> o.resp.results[i].metadata, score |-> 0]]
       IN After(<<Ev("log", message.val, NoText)>>,
                IF o.resp.error # "none" THEN o
                ELSE [o EXCEPT !.resp.results = docs])

(***************************************************************************)
(* infras/core/lambda_function_enhanced.py: query_knowledge_base           *)
(***************************************************************************)
\* lines 95-117: every record, with similarity max(0, 1 - distance)
EnhancedResults(found, q) ==
  [i \in 1..Len(found) |->
     [text |-> found[i].chunk_text, metadata |-> found[i].metadata,
      score |-> Max(0, 100 - CosDistance(found[i].embedding, q))]]

\* query_knowledge_base(tenant, query_text, max_results), lines 69-120
EnhancedQueryKnowledgeBase(tenant, query_text, x) ==
  IF ~x.search_ok
    THEN Failing(Embedded(Out(<<Ev("embed", query_text.val, NoText),
                                Ev("search", NoText, TableName(tenant.val))>>, << >>,
                              Resp(200, "none", "none")),
                          x.emb),
                 "search")
  ELSE Embedded(Out(<<Ev("embed", query_text.val, NoText),
                      Ev("search", NoText, TableName(tenant.val))>>, x.found,
                    [Resp(200, "none", "none")
                       EXCEPT !.results = EnhancedResults(x.found, x.emb)]),
                x.emb)

\* handler, route POST /kb/query (lines 255-277)
EnhancedHandleKbQuery(tenant, query, x) ==
  IF ~Truthy(tenant) \/ ~Truthy(query)
    THEN Out(<< >>, << >>,
             Resp(400, "none", "Missing required parameters: tenant and query"))
    ELSE EnhancedQueryKnowledgeBase(tenant, query, x)

(***************************************************************************)
(* infras/core/lambda_function_simple.py: the mock /kb/query route         *)
(***************************************************************************)
\* validate_tenant_access, lines 160-165: the allow-list check
InAllowList(tenant_text) ==
  \E i \in 1..Len(valid_tenants) : Lower(tenant_text) = valid_tenants[i]

\* lines 447-457: some allow-listed slug other than the tenant's own is a
\* substring of the lower-cased query
CrossTenantQuery(tenant_text, query_text) ==
  \E i \in 1..Len(valid_tenants) :
     /\ valid_tenants[i] # Lower(tenant_text)
     /\ Contains(Lower(query_text), valid_tenants[i])

\* lines 502-508, with the generic entry added to whatever is there
SimpleAlwaysFallback(results, generic) == Append(results, generic)

\* lines 502-508: the generic entry, added when no entry was made
SimpleWithFallback(results, generic) == IF results = << >> THEN <<generic>> ELSE results

\* lines 459-508: the mock results
SimpleMockResult(tenant_text, query_text) ==
  LET q == Lower(query_text)
      has(w) == Contains(q, w)
      status == has(<<"s","t","a","t","u","s">>)
                  \/ has(<<"i","m","p","l","e","m","e","n","t","a","t","i","o","n">>)
      metrics == has(<<"m","e","t","r","i","c","s">>) \/ has(<<"s","u","c","c","e","s","s">>)
      next == has(<<"n","e","x","t">>) \/ has(<<"s","t","e","p">>)
      stakeholder == has(<<"s","t","a","k","e","h","o","l","d","e","r">>)
      generic == [text |-> <<"Information about ">> \o tenant_text
                             \o <<" found in customer journey documentation.">>,
                  metadata |-> Meta(PyNone, <<"Customer Knowledge Base">>, PyNone),
                  score |-> 75]
      mock(t, src, sc) == [text |-> <<t>>,
                           metadata |-> Meta(PyNone, <<src>>, PyNone),
                           score |-> sc]
      specific ==
        IF CrossTenantQuery(tenant_text, query_text)
       THEN <<[text |-> <<"Information about other organizations is not available. This knowledge base only contains information about ">>
                        \o tenant_text \o <<".">>,
             metadata |-> Meta(PyNone, <<"Privacy Policy">>, PyStr(<<"Data Access">>)),
             score |-> 99]>>
     ELSE IF tenant_text = acme /\ status
       THEN <<mock("ACME Corporation is currently in the Implementation stage (phase 3 of 5)",
                 "Customer Journey Report - ACME Manufacturing", 95)>>
     ELSE IF tenant_text = acme /\ metrics
       THEN <<mock("Success metrics include 30% reduction in order processing time",
                 "ACME Digital Transformation Progress Report", 91)>>
     ELSE IF tenant_text = acme /\ next
       THEN <<mock("Next steps for ACME", "ACME Implementation Roadmap", 89)>>
     ELSE IF tenant_text = globex /\ status
       THEN <<mock("Globex Industries is currently in the Onboarding stage (phase 1 of 4)",
                 "Globex Industries Onboarding Report", 93)>>
     ELSE IF tenant_text = globex /\ stakeholder
       THEN <<mock("Key stakeholders at Globex", "Globex Project Charter", 97)>>
     ELSE << >>
  IN SimpleWithFallback(specific, generic)

\* handler, route POST /kb/query (lines 415-514); allowed is what the RBAC
\* permission check answers
SimpleHandleKbQuery(tenant, query, allowed) ==
  IF ~Truthy(tenant) \/ ~Truthy(query)
    THEN Out(<<Ev("log", query.val, NoText)>>, << >>,
             Resp(400, "none", "Missing required parameters: tenant and query"))
  ELSE IF tenant.type # "str"
    THEN Out(<<Ev("log", query.val, NoText)>>, << >>,
             Resp(500, "none", "Internal Server Error"))
  ELSE IF ~InAllowList(tenant.val) \/ ~allowed
    THEN Out(<<Ev("log", query.val, NoText)>>, << >>,
             Resp(403, "none", "Unauthorized access. Invalid tenant or insufficient permissions."))
  ELSE IF query.type # "str"
    THEN Out(<<Ev("log", query.val, NoText)>>, << >>,
             Resp(500, "none", "Internal Server Error"))
  ELSE Out(<<Ev("log", query.val, NoText),
             Ev("isolation_check", query.val, NoText)>>, << >>,
           [Resp(200, "none", "none")
              EXCEPT !.results = SimpleMockResult(tenant.val, query.val)])

(***************************************************************************)
(* Ingestion.                                                              *)
(***************************************************************************)
\* a row of a vector table
Row(id, embedding, chunk_text, metadata) ==
  [id |-> id, embedding |-> embedding, chunk_text |-> chunk_text, metadata |-> metadata]

\* the table replaced by the rows written: what a writer that reads the
\* table, adds its rows and writes the table back does to the other's rows
InsertRowsOverwriting(st, table, rows) ==
  [st EXCEPT ![table] = {rows[i] : i \in 1..Len(rows)}]

\* INSERT INTO <table> of the rows, in order
InsertRows(st, table, rows) ==
  [st EXCEPT ![table] = @ \cup {rows[i] : i \in 1..Len(rows)}]

\* id TEXT PRIMARY KEY: the table holds a row of this id, so a plain INSERT
\* of it raises
DuplicateKey(st, table, id) == table \in DOMAIN st /\ \E r \in st[table] : r.id = id

\* what an ingestion leaves: the outcome and the store
Ingested(o, st) == [out |-> o, store |-> st]

\* what the collaborators answer during one ingestion: the document read
\* from the bucket (or a failure), the embedding and the fresh uuid of each
\* chunk, and the number of inserts that succeed before the store fails
\* (fail_at = 0: none fails)
IngestAnswers(doc_ok, doc, emb_ok, embs, ids, fail_at) ==
  [doc_ok |-> doc_ok, doc |-> doc, emb_ok |-> emb_ok, embs |-> embs, ids |-> ids,
   fail_at |-> fail_at]

\* cloudable_clean trigger_knowledge_sync, lines 173-256: the document as one
\* chunk, its metadata, the insert into kb_vectors_<tenant_id>
CleanSyncDocument(st, tenant_id, document_key, y) ==
  LET table == TableName(tenant_id.val)
      metadata == Meta(tenant_id, document_key, PyNone)
      row == Row(y.ids[1], y.embs[1], y.doc, metadata)
      fallback == Resp(200, "started", "none")
      events == <<Ev("embed", y.doc, NoText), Ev("insert", NoText, table)>>
  IN IF ~y.doc_ok THEN Ingested(Out(<< >>, << >>, fallback), st)
     ELSE IF ~y.emb_ok
       THEN Ingested(Failing(Out(<<Ev("embed", y.doc, NoText)>>, << >>,
                                 RespWithException(500, "Failed to generate embedding",
                                                   ServiceError)),
                             "embed"), st)
     ELSE IF table \notin DOMAIN st \/ y.fail_at # 0 \/ DuplicateKey(st, table, row.id)
       THEN Ingested(Failing(Attempting(Out(events, << >>, fallback),
                                        <<[row |-> row,
                                           status |-> IF table \in DOMAIN st /\ y.fail_at = 0
                                                        THEN "conflict" ELSE "failed"]>>),
                             "insert"), st)
     ELSE Ingested(Attempting(Out(events, << >>, Resp(200, "completed", "none")),
                              <<[row |-> row, status |-> "stored"]>>),
                   InsertRows(st, table, <<row>>))

\* cloudable_clean trigger_knowledge_sync(tenant_id, document_key), lines 163-260
CleanTriggerKnowledgeSync(st, tenant_id, document_key, y) ==
  IF tenant_id.type # "str"
    THEN Ingested(Out(<< >>, << >>, Resp(500, "none", "Failed to sync knowledge base")), st)
  ELSE IF ~BucketConfigured(tenant_id.val)
    THEN Ingested(Out(<< >>, << >>, Resp(404, "none", "Tenant bucket not configured")), st)
  ELSE CleanSyncDocument(st, tenant_id, document_key, y)

\* cloudable_clean handler, route POST /kb/sync (lines 588-599)
CleanHandleKbSync(st, tenant_id, document_key, y) ==
  IF ~Truthy(tenant_id) \/ document_key = << >>
    THEN Ingested(Out(<< >>, << >>,
                      Resp(400, "none", "tenant_id and document_key are required")), st)
    ELSE CleanTriggerKnowledgeSync(st, tenant_id, document_key, y)

RECURSIVE SplitLines(_)
\* content.split('\n')
SplitLines(s) ==
  IF \A i \in 1..Len(s) : s[i] # "\n" THEN <<s>>
  ELSE LET k == CHOOSE i \in 1..Len(s) : s[i] = "\n" /\ \A j \in 1..(i-1) : s[j] # "\n"
       IN <<SubSeq(s, 1, k-1)>> \o SplitLines(SubSeq(s, k+1, Len(s)))

HeadingPrefix == <<"#", "#", " ">>

\* line.startswith('## ')
IsHeading(line) == Len(line) >= Len(HeadingPrefix) /\ SubSeq(line, 1, Len(HeadingPrefix)) = HeadingPrefix

RECURSIVE RemoveHeadingPrefix(_)
\* line.replace('## ', '')
RemoveHeadingPrefix(s) ==
  IF Len(s) < Len(HeadingPrefix) THEN s
  ELSE IF SubSeq(s, 1, Len(HeadingPrefix)) = HeadingPrefix
    THEN RemoveHeadingPrefix(SubSeq(s, Len(HeadingPrefix) + 1, Len(s)))
  ELSE <<s[1]>> \o RemoveHeadingPrefix(SubSeq(s, 2, Len(s)))

\* the chunk with its text as accumulated, not stripped
ChunkUnstripped(current_chunk, current_heading) ==
  [text |-> current_chunk, heading |-> current_heading]

Chunk(current_chunk, current_heading) ==
  [text |-> Strip(current_chunk), heading |-> current_heading]

RECURSIVE ChunkLines(_, _, _, _)
\* lines 137-165: the loop over the lines, then the last chunk
ChunkLines(lines, chunks, current_chunk, current_heading) ==
  IF lines = << >>
    THEN IF current_chunk # << >>
           THEN Append(chunks, Chunk(current_chunk, current_heading)) ELSE chunks
  ELSE IF IsHeading(lines[1])
    THEN ChunkLines(Tail(lines),
                    IF current_chunk # << >>
                      THEN Append(chunks, Chunk(current_chunk, current_heading))
                      ELSE chunks,
                    lines[1] \o <<"\n">>,
                    Strip(RemoveHeadingPrefix(lines[1])))
  ELSE ChunkLines(Tail(lines), chunks, current_chunk \o lines[1] \o <<"\n">>, current_heading)

\* sync_document, lines 130-165: the chunks of a document
DocumentChunks(content) == ChunkLines(SplitLines(content), << >>, << >>, << >>)

\* sync_document(tenant, document_key), lines 122-200
EnhancedSyncDocument(st, tenant, document_key, y) ==
  LET table == TableName(tenant.val)
      chunks == DocumentChunks(y.doc)
      n == Len(chunks)
      all == [i \in 1..n |->
                Row(y.ids[i], y.embs[i], chunks[i].text,
                    Meta(PyNone, document_key, PyStr(chunks[i].heading)))]
      \* the insert of chunk i raises
      raises(i) ==
        \/ table \notin DOMAIN st
        \/ y.fail_at = i
        \/ DuplicateKey(st, table, all[i].id)
        \/ \E j \in 1..(i - 1) : all[j].id = all[i].id
      done == IF \E i \in 1..n : raises(i)
                THEN (CHOOSE i \in 1..n : raises(i) /\ \A j \in 1..(i - 1) : ~raises(j)) - 1
                ELSE n
      rows == SubSeq(all, 1, done)
      events == [i \in 1..(2 * Min(n, done + 1)) |->
                   IF i % 2 = 1 THEN Ev("embed", chunks[(i + 1) \div 2].text, NoText)
                   ELSE Ev("insert", NoText, table)]
      attempted == [i \in 1..n |->
                      [row |-> all[i],
                       status |-> IF i <= done THEN "stored"
                                  ELSE IF i > done + 1 THEN "skipped"
                                  ELSE IF table \in DOMAIN st /\ y.fail_at # i
                                    THEN "conflict" ELSE "failed"]]
  IN IF ~y.doc_ok \/ y.doc = << >>
       THEN Ingested(Out(<< >>, << >>,
                         Resp(400, "none", "Document not found or could not be read")), st)
     ELSE IF done < n
       THEN Ingested(Failing(Attempting(Out(events, << >>,
                                            RespWithException(400, "none", ServiceError)),
                                        attempted),
                             "insert"),
                     IF done = 0 THEN st ELSE InsertRows(st, table, rows))
     ELSE Ingested(Attempting(Out(events, << >>,
                                  [Resp(200, "Document processed successfully", "none")
                                     EXCEPT !.chunks_processed = n]),
                              attempted),
                   IF done = 0 THEN st ELSE InsertRows(st, table, rows))

\* lambda_function_enhanced handler, route POST /kb/sync (lines 234-252)
EnhancedHandleKbSync(st, tenant, document_key, y) ==
  IF ~Truthy(tenant) \/ document_key = << >>
    THEN Ingested(Out(<< >>, << >>,
                      Resp(400, "none", "Missing required parameters: tenant and document_key")), st)
    ELSE EnhancedSyncDocument(st, tenant, document_key, y)

(***************************************************************************)
(* The requests and the collaborators' answers the model draws from.       *)
(***************************************************************************)
\* the text of n times the character c
Repeat(c, n) == [i \in 1..n |-> c]

TenantInputs ==
  {PyStr(acme), PyStr(globex), PyStr(initech),
   PyStr(<<"A","C","M","E">>),
   PyStr(acme \o <<"\n">>), PyStr(<<"\n">> \o acme),
   PyStr(<<"a","c","m","e","!">>), PyStr(<<"a","c"," ","m","e">>),
   PyStr(Repeat("t", IdMaxLen)), PyStr(Repeat("t", IdMaxLen + 1)),
   PyStr(<< >>), PyNone, PyInt("5")}

c1 == <<"c","1">>

CustomerInputs ==
  {PyStr(c1), PyStr(c1 \o <<"\n">>), PyStr(<<"c"," ","1">>), PyStr(<<"c","1",";">>),
   PyStr(Repeat("c", IdMaxLen + 1)), PyStr(<< >>), PyNone, PyInt("5")}

Blank == <<" ">>

\* short query texts: too short, just long enough, with surrounding
\* whitespace, naming tenants, with characters that html.escape rewrites
ShortQueryTexts ==
  {<< >>, <<"a","b">>, <<"a","b","c">>, <<" ","a","b"," ">>, <<" ","a","b","c","\n">>,
   <<" "," "," ">>,
   <<"i","s"," ">> \o globex, <<"G","l","o","b","E","x","?">>, acme \o <<" ","o","k">>,
   <<"a","c","m","e","&","g","l","o","b","e","x">>,
   <<"a","<","b">>, <<"<","b",">","s","t","a","t","u","s">>, <<"'","i","t","\"">>}

\* query texts around the length limit, bare and wrapped in whitespace
LongQueryTexts ==
  UNION {{Repeat("x", n), Blank \o Repeat("x", n - 2) \o Blank} :
           n \in (QueryMaxLen - 1)..(QueryMaxLen + PadOver)}

QueryInputs ==
  {PyStr(q) : q \in ShortQueryTexts \cup LongQueryTexts} \cup {PyNone, PyInt("5")}

NormalQuery == PyStr(<<"a","b","c">>)

\* (tenant, customer, query) of the requests that exercise the checks made
\* on the request itself
TextRequests ==
  (TenantInputs \X CustomerInputs \X {NormalQuery})
    \cup ({PyStr(acme), PyStr(globex)} \X {PyStr(c1)} \X QueryInputs)

\* (tenant, customer, query) of the requests that exercise the retrieval
StoreRequests ==
  {PyStr(acme), PyStr(globex), PyStr(initech), PyStr(<<"a","c","m","e","!">>)}
    \X {PyStr(c1)}
    \X {NormalQuery, PyStr(<<"a","b">>), PyStr(<<"i","s"," ">> \o globex),
        PyStr(<<"a","<","b">>)}

\* document contents: one line, blank
Docs == {<<"a">>, <<" ">>}

DocumentKeys == {<<"documents/report.md">>}

SyncTenantInputs ==
  {PyStr(acme), PyStr(globex), PyStr(initech), PyStr(acme \o <<"\n">>), PyNone, PyInt("5")}

\* the rows a search of the table may return, each possible order; no
\* answer when the table does not exist
Found(st, table, q, k) ==
  IF table \in DOMAIN st THEN NearestRows(st[table], q, k) ELSE {}

NoAnswers == Answers(FALSE, "v0", FALSE, << >>, FALSE, ServiceError)

\* what the collaborators may answer to a query of the table
QueryAnswers(st, table, k) ==
  {NoAnswers}
    \cup {Answers(TRUE, q, FALSE, << >>, FALSE,
                  IF table \in DOMAIN st THEN ServiceError ELSE MissingRelation(table)) :
            q \in Vecs}
    \cup UNION {{Answers(TRUE, q, TRUE, f, c, ServiceError) :
                   f \in Found(st, table, q, k), c \in BOOLEAN} :
                  q \in Vecs}

\* the invocation calls a collaborator
CallsOut(o) ==
  \E i \in 1..Len(o.trace) : o.trace[i].kind \in {"embed", "search", "complete", "insert"}

\* the outcomes of a handler: a handler that returns before its first call
\* (as it does on NoAnswers, o0) has that one outcome, else one per answer
Outcomes(o0, all) == IF CallsOut(o0) THEN all ELSE {o0}

\* the sequences of n different ids not in use
IdSeqs(universe, n, distinct) ==
  {p \in [1..n -> universe] : distinct => \A i, j \in 1..n : i # j => p[i] # p[j]}

\* uuid4 values that no stored row has
FreshIds(st, n) == IdSeqs(ChunkIds \ UsedIds(st), n, TRUE)

\* what the collaborators may answer to an ingestion that makes up to n chunks
\* of one of these documents, with these vectors and these ids
SyncAnswersOver(bucket, n, docs, vecs, ids) ==
  {IngestAnswers(FALSE, << >>, FALSE, << >>, << >>, 0)}
    \cup (IF ~bucket THEN {}
          ELSE {IngestAnswers(TRUE, d, e, v, i, f) :
                  d \in docs, e \in BOOLEAN, v \in [1..n -> vecs], i \in ids, f \in 0..n})

\* what the collaborators may answer to an ingestion that makes up to n chunks
SyncAnswers(st, bucket, n) == SyncAnswersOver(bucket, n, Docs, Vecs, FreshIds(st, n))

(***************************************************************************)
(* The state machine: one invocation at a time over the shared store.      *)
(***************************************************************************)
Init ==
  /\ store = [t \in Tables |-> {}]
  /\ inv = NoInv

Idle == inv = NoInv

\* infras/lambdas/kb_manager/main.py, POST /kb/query
QueryMainOn(R) ==
  /\ Idle
  /\ \E r \in R :
       LET answers == QueryAnswers(store, TableName(r[1].val), MainSearchLimit)
       IN \E o \in Outcomes(MainHandleKbQuery(r[1], r[2], r[3], NoAnswers),
                            {MainHandleKbQuery(r[1], r[2], r[3], x) : x \in answers}) :
             inv' = Invocation("main", r[1], r[2], r[3], o)
  /\ UNCHANGED store

\* cloudable_clean kb_manager, POST /kb/query
QueryCleanOn(R) ==
  /\ Idle
  /\ \E r \in R, user_id \in {PyNone, PyStr(<<"u","1">>)} :
       LET answers == QueryAnswers(store, TableName(r[1].val), CleanSearchLimit)
       IN \E o \in Outcomes(CleanHandleKbQuery(user_id, r[1], r[2], r[3], NoAnswers),
                            {CleanHandleKbQuery(user_id, r[1], r[2], r[3], x) : x \in answers}) :
             inv' = Invocation("clean", r[1], r[2], r[3], o)
  /\ UNCHANGED store

\* cloudable_clean kb_manager, POST /chat
ChatCleanOn(R) ==
  /\ Idle
  /\ \E r \in R :
       LET answers == QueryAnswers(store, TableName(r[1].val), CleanSearchLimit)
       IN \E o \in Outcomes(CleanHandleChat(r[1], r[2], r[3], NoAnswers),
                            {CleanHandleChat(r[1], r[2], r[3], x) : x \in answers}) :
             inv' = Invocation("clean_chat", r[1], r[2], r[3], o)
  /\ UNCHANGED store

\* lambda_function_enhanced, POST /kb/query; the mock embedding never fails
QueryEnhancedOn(R) ==
  /\ Idle
  /\ \E r \in R, max_results \in {1, 3} :
       LET answers == {x \in QueryAnswers(store, TableName(r[1].val), max_results) : x.emb_ok}
       IN \E o \in Outcomes(EnhancedHandleKbQuery(r[1], r[3], NoAnswers),
                            {EnhancedHandleKbQuery(r[1], r[3], x) : x \in answers}) :
             inv' = Invocation("enhanced", r[1], PyNone, r[3], o)
  /\ UNCHANGED store

\* lambda_function_simple, POST /kb/query
QuerySimpleOn(R) ==
  /\ Idle
  /\ \E r \in R, allowed \in BOOLEAN :
       inv' = Invocation("simple", r[1], PyNone, r[3], SimpleHandleKbQuery(r[1], r[3], allowed))
  /\ UNCHANGED store

KbQueryMain == QueryMainOn(StoreRequests)
KbQueryClean == QueryCleanOn(StoreRequests)
ChatClean == ChatCleanOn(StoreRequests)
KbQueryEnhanced == QueryEnhancedOn(StoreRequests)
KbQuerySimple == QuerySimpleOn(StoreRequests)

\* cloudable_clean kb_manager, POST /kb/sync
SyncCleanOn(answers, cap) ==
  /\ Idle
  /\ RowCount(store) < cap
  /\ \E tenant_id \in SyncTenantInputs, document_key \in DocumentKeys :
       \E y \in (IF BucketConfigured(tenant_id.val) THEN answers
                 ELSE SyncAnswersOver(FALSE, 1, {}, {}, {})) :
          LET g == CleanHandleKbSync(store, tenant_id, document_key, y)
          IN /\ inv' = Invocation("clean_sync", tenant_id, PyNone, PyNone, g.out)
             /\ store' = g.store

KbSyncClean == SyncCleanOn(SyncAnswers(store, TRUE, 1), MaxRows)

\* lambda_function_enhanced, POST /kb/sync
SyncEnhancedOn(docs, vecs, universe, distinct, cap) ==
  /\ Idle
  /\ \E tenant \in SyncTenantInputs, document_key \in DocumentKeys :
       \E n \in 1..(cap - RowCount(store)) :
          \E y \in SyncAnswersOver(tenant.val \in BucketTenants, n, docs, vecs,
                                   IdSeqs(universe, n, distinct)) :
             LET g == EnhancedHandleKbSync(store, tenant, document_key, y)
             IN /\ Len(DocumentChunks(y.doc)) <= n
                /\ inv' = Invocation("enhanced_sync", tenant, PyNone, PyNone, g.out)
                /\ store' = g.store

KbSyncEnhanced == SyncEnhancedOn(Docs, Vecs, ChunkIds \ UsedIds(store), TRUE, MaxRows)

\* the handler returns; nothing of the invocation is kept
EndInvocation ==
  /\ ~Idle
  /\ inv' = NoInv
  /\ UNCHANGED store

Next ==
  \/ KbQueryMain
  \/ KbQueryClean
  \/ ChatClean
  \/ KbQueryEnhanced
  \/ KbQuerySimple
  \/ KbSyncClean
  \/ KbSyncEnhanced
  \/ EndInvocation

Spec == Init /\ [][Next]_vars

(***************************************************************************)
(* The query routes over the requests that exercise the checks made on the *)
(* request itself, against the store as the setup leaves it.               *)
(***************************************************************************)
TextQueryMain == QueryMainOn(TextRequests)
TextQueryClean == QueryCleanOn(TextRequests)
TextChatClean == ChatCleanOn(TextRequests)
TextQueryEnhanced == QueryEnhancedOn(TextRequests)
TextQuerySimple == QuerySimpleOn(TextRequests)

NextText ==
  \/ TextQueryMain
  \/ TextQueryClean
  \/ TextChatClean
  \/ TextQueryEnhanced
  \/ TextQuerySimple
  \/ EndInvocation

SpecText == Init /\ [][NextText]_vars

(***************************************************************************)
(* The properties the design states, over the invocation just handled and  *)
(* the store.                                                              *)
(***************************************************************************)
QueryOps == {"main", "clean", "clean_chat", "enhanced", "simple"}

ValidatingOps == {"main", "clean", "clean_chat"}

HasEvent(kind) == \E i \in 1..Len(inv.trace) : inv.trace[i].kind = kind

\* the similarity of the i-th returned row to the query of the invocation
FoundSimilarity(i) == Similarity(inv.found[i], inv.emb)

\* the tenant is one of the allow-list
IsAllowListed(T) == \E i \in 1..Len(valid_tenants) : valid_tenants[i] = T

\* the lower-cased text q contains the slug of an allow-listed tenant other than T
NamesOtherTenant(T, q) ==
  \E i \in 1..Len(valid_tenants) :
     valid_tenants[i] # T /\ Contains(Lower(q), valid_tenants[i])

CrossTenantRequest ==
  /\ inv.op \in QueryOps
  /\ inv.tenant.type = "str" /\ inv.query.type = "str"
  /\ IsAllowListed(inv.tenant.val)
  /\ NamesOtherTenant(inv.tenant.val, inv.query.val)

\* C1: a query of an allow-listed tenant that names another allow-listed
\* tenant is answered as blocked, and its invocation makes no embedding call
\* and no vector-store search, in every query route.
C1_CrossTenantBlocked ==
  CrossTenantRequest =>
    /\ ~HasEvent("embed") /\ ~HasEvent("search")
    /\ (inv.op = "simple" /\ inv.resp.status = 200 =>
          inv.resp.results[1].metadata.source = <<"Privacy Policy">>)

\* the route with the pgvector search embeds and searches for acme's query
\* that names globex
C1_MainSearchesCrossTenant ==
  /\ inv.op = "main" /\ inv.tenant = PyStr(acme)
  /\ inv.query = PyStr(<<"i","s"," ">> \o globex)
  /\ HasEvent("embed") /\ HasEvent("search")

\* C2: every statement on a per-tenant table (search, insert) names the
\* table kb_vectors_<tenant_id> of the request's tenant_id and comes after
\* that tenant_id passed validate_input in the same invocation.
C2_SqlOnlyAfterValidation ==
  \A i \in 1..Len(inv.trace) :
     inv.trace[i].kind \in {"search", "insert"} =>
       /\ inv.tenant.type = "str"
       /\ inv.trace[i].table = TableName(inv.tenant.val)
       /\ \E j \in 1..(i - 1) :
             /\ inv.trace[j].kind = "validate_ok"
             /\ inv.trace[j].table = inv.trace[i].table

\* a search of a table named from a tenant that no validation has seen
C2_UnvalidatedSearch ==
  /\ inv.op = "enhanced" /\ inv.tenant = PyStr(<<"a","c","m","e","!">>)
  /\ HasEvent("search") /\ ~HasEvent("validate_ok")

\* C3: every record of the partition kb_vectors_T has metadata.tenant = T.
C3_MetadataTenantMatchesPartition ==
  \A T \in TableTenants :
     \A r \in store[TableName(T)] : r.metadata.tenant = PyStr(T)

\* a record of acme's partition without a tenant in its metadata
C3_RecordWithoutTenant ==
  \E r \in store[TableName(acme)] : r.metadata.tenant = PyNone

\* the rule of the design: a string of IdMinLen..IdMaxLen characters of IdChars
WellFormedId(v) == v.type = "str" /\ FullIdMatchStrict(v.val)

Validated == inv.op \in ValidatingOps /\ (HasEvent("validate_ok") \/ HasEvent("validate_fail"))

\* C4: validate_input reports valid exactly when tenant_id is 1 to 20
\* characters of A-Z a-z 0-9 _ - and customer_id is absent or of the same
\* form; every other value gets the tenant or the customer error.
C4_ValidateInputRule ==
  Validated =>
    LET v == validate_input(inv.tenant, inv.customer)
        tenant_ok == WellFormedId(inv.tenant)
        customer_ok == inv.customer = PyNone \/ WellFormedId(inv.customer)
    IN /\ HasEvent("validate_ok") <=> v.valid
       /\ v.valid <=> (tenant_ok /\ customer_ok)
       /\ ~tenant_ok => v.tenant_error # ErrNone
       /\ ~customer_ok => v.customer_error # ErrNone

\* a tenant_id ending in a line terminator passes validate_input
C4_TrailingNewlineAccepted ==
  /\ inv.op = "main" /\ inv.tenant = PyStr(acme \o <<"\n">>)
  /\ HasEvent("validate_ok")

TooShort == "Query must be at least 3 characters"
TooLong == "Query too long (max 1000 characters)"

\* the invocation came to the checks of the query's length
ReachedLengthCheck ==
  /\ inv.op \in ValidatingOps
  /\ HasEvent("validate_ok")
  /\ inv.query.type = "str"
  /\ inv.resp.error # "Invalid tenant ID"

\* C5: the length check passes exactly the queries whose trimmed length is
\* within QueryMinLen..QueryMaxLen; shorter is too short, longer is too long,
\* and surrounding whitespace does not count.
C5_TrimmedLengthCheck ==
  ReachedLengthCheck =>
    LET n == Len(Strip(inv.query.val))
    IN /\ inv.resp.error = TooShort <=> n < QueryMinLen
       /\ inv.resp.error = TooLong <=> n > QueryMaxLen

\* a query of trimmed length QueryMaxLen - 1 rejected as too long
C5_PaddedQueryRejected ==
  /\ inv.op = "main"
  /\ inv.query = PyStr(Blank \o Repeat("x", QueryMaxLen - 1) \o Blank)
  /\ inv.resp.error = TooLong

\* C6: the cross-tenant check, the embedding call, the completion prompt
\* and the log statements of a query invocation get the trimmed and
\* HTML-escaped query text, never the raw one.
C6_EscapedBeforeUse ==
  (inv.op \in QueryOps /\ inv.query.type = "str") =>
    \A i \in 1..Len(inv.trace) :
       inv.trace[i].kind \in {"isolation_check", "embed", "complete", "log"} =>
         inv.trace[i].text = HtmlEscape(Strip(inv.query.val))

\* the cross-tenant check reads the raw text of a query with a character
\* that the escape rewrites
C6_RawQueryChecked ==
  /\ inv.op = "simple" /\ inv.query = PyStr(<<"a","<","b">>)
  /\ \E i \in 1..Len(inv.trace) :
        inv.trace[i].kind = "isolation_check" /\ inv.trace[i].text = <<"a","<","b">>

RejectedByValidation ==
  /\ inv.op \in QueryOps
  /\ inv.resp.status = 400
  /\ HasEvent("validate_fail") \/ inv.resp.error \in {TooShort, TooLong}

\* C7: an invocation rejected by validation (identifier format, query too
\* short, query too long) has made no embedding, vector-store or completion
\* call.
C7_NoCallWhenRejected ==
  RejectedByValidation =>
    ~HasEvent("embed") /\ ~HasEvent("search") /\ ~HasEvent("complete")

\* a query over the length limit is rejected after the identifiers passed
C7_LongQueryRejected ==
  /\ inv.op = "main"
  /\ HasEvent("validate_ok")
  /\ inv.query = PyStr(Repeat("x", QueryMaxLen + 1))
  /\ inv.resp.status = 400 /\ inv.resp.error = TooLong

\* the search returned rows, none at or above the threshold of the design
AllBelowThreshold ==
  /\ inv.found # << >>
  /\ \A i \in 1..Len(inv.found) : FoundSimilarity(i) < MainThreshold

\* the texts the invocation selected for the answer
SelectedTexts ==
  IF inv.op = "main" THEN inv.resp.context
  ELSE [i \in 1..Len(inv.resp.results) |-> inv.resp.results[i].text]

\* C8: when the search returns rows and none is at or above the threshold,
\* the context is the one row of highest similarity and the answer is not
\* "I don't know".
C8_FallbackToTopChunk ==
  (inv.op \in {"main", "clean"} /\ inv.resp.status = 200 /\ AllBelowThreshold) =>
    /\ inv.resp.answer \notin {IDontKnowNone, IDontKnowIrrelevant}
    /\ \E i \in 1..Len(inv.found) :
          /\ \A j \in 1..Len(inv.found) : FoundSimilarity(j) <= FoundSimilarity(i)
          /\ SelectedTexts = <<inv.found[i].chunk_text>>

\* rows were found, all below the threshold, and the answer is "I don't know"
C8_LowRowsUnanswered ==
  /\ inv.op = "clean" /\ inv.resp.status = 200 /\ AllBelowThreshold
  /\ inv.resp.answer = IDontKnowNone

\* the texts of the returned rows at or above the threshold of the design
TextsAtOrAboveThreshold ==
  LET kept == SelectSeq([i \in 1..Len(inv.found) |->
                           [text |-> inv.found[i].chunk_text, score |-> FoundSimilarity(i)]],
                        LAMBDA r : r.score >= MainThreshold)
  IN [i \in 1..Len(kept) |-> kept[i].text]

\* C9: every query_knowledge_base variant keeps exactly the returned rows
\* of similarity at least 0.2, so all select the same chunks from the same
\* rows.
C9_SameThresholdEverywhere ==
  (/\ inv.op \in {"main", "clean", "enhanced"}
   /\ inv.resp.status = 200
   /\ inv.found # << >>
   /\ \E i \in 1..Len(inv.found) : FoundSimilarity(i) >= MainThreshold) =>
    SelectedTexts =
      SubSeq(TextsAtOrAboveThreshold, 1,
             IF inv.op = "main" THEN Min(MainContextLimit, Len(TextsAtOrAboveThreshold))
             ELSE Len(TextsAtOrAboveThreshold))

\* a row of similarity 0.5 is returned and left out of the answer
C9_RowAboveThresholdDropped ==
  /\ inv.op = "clean" /\ inv.resp.status = 200
  /\ \E i \in 1..Len(inv.found) : FoundSimilarity(i) = 50
  /\ inv.resp.results = << >>

\* C10: the results of a query are in non-increasing similarity order and
\* results of equal similarity are in ascending chunk id order.
C10_RankedOrderDeterministic ==
  (inv.op \in {"main", "clean", "clean_chat", "enhanced"} /\ inv.found # << >>) =>
    /\ \A i, j \in 1..Len(inv.found) :
          i < j =>
            /\ FoundSimilarity(i) >= FoundSimilarity(j)
            /\ FoundSimilarity(i) = FoundSimilarity(j) => inv.found[i].id < inv.found[j].id
    /\ \A i, j \in 1..Len(inv.resp.confidence_scores) :
          i < j => inv.resp.confidence_scores[i] >= inv.resp.confidence_scores[j]

\* two rows of equal similarity returned with the greater id first
C10_TieInDescendingIdOrder ==
  /\ inv.op = "main" /\ Len(inv.found) = 2
  /\ FoundSimilarity(1) = FoundSimilarity(2)
  /\ inv.found[1].id > inv.found[2].id

(***************************************************************************)
(* The query route of kb_manager/main.py over stores that ingestion has    *)
(* filled with up to MaxRankRows rows of the acme partition.               *)
(***************************************************************************)
\* the row with id i: the text of i characters, the embedding v
RankRow(i, v) == Row(i, v, Repeat("k", i), Meta(PyStr(acme), <<"documents/report.md">>, PyNone))

\* the stores with rows 1..n in kb_vectors_acme, n up to MaxRankRows
RankStores ==
  UNION {{[t \in Tables |->
             IF t = TableName(acme) THEN {RankRow(i, e[i]) : i \in 1..n} ELSE {}] :
            e \in [1..n -> Vecs]} :
           n \in 0..MaxRankRows}

InitRank ==
  /\ store \in RankStores
  /\ inv = NoInv

RankRequests == {<<PyStr(acme), PyStr(c1), NormalQuery>>}

RankQueryMain == QueryMainOn(RankRequests)

NextRank ==
  \/ RankQueryMain
  \/ EndInvocation

SpecRank == InitRank /\ [][NextRank]_vars

\* the query of kb_manager/main.py was answered by the completion model
MainAnswered == inv.op = "main" /\ inv.resp.status = 200 /\ inv.resp.answer = "llm"

\* the indices of the returned rows at or above the threshold
PassingRows == {i \in 1..Len(inv.found) : FoundSimilarity(i) >= MainThreshold}

\* the context is made of the texts of the returned rows at the indices
\* f[1], f[2], ...: different rows, in non-increasing similarity order, and
\* no returned row outside it is more similar than one inside it
ContextOfTopRows(f) ==
  /\ \A i \in DOMAIN f : inv.resp.context[i] = inv.found[f[i]].chunk_text
  /\ \A i, j \in DOMAIN f : i < j => f[i] # f[j] /\ FoundSimilarity(f[i]) >= FoundSimilarity(f[j])
  /\ \A k \in PassingRows :
        (\A i \in DOMAIN f : f[i] # k) =>
          \A i \in DOMAIN f : FoundSimilarity(f[i]) >= FoundSimilarity(k)

\* C11 as stated: the context of the completion holds at most
\* MainContextLimit texts, those of the most similar rows that passed the
\* threshold, in descending similarity order.
C11_ContextTopPassing ==
  MainAnswered =>
    /\ Len(inv.resp.context) <= MainContextLimit
    /\ Len(inv.resp.context) = Min(MainContextLimit, Cardinality(PassingRows))
    /\ \E f \in [1..Len(inv.resp.context) -> PassingRows] : ContextOfTopRows(f)

\* C11 amended: the context holds at most MainContextLimit texts; when some
\* row passed the threshold they are the texts of the most similar passing
\* rows in descending similarity order, and when none passed the context is
\* the text of the first (most similar) returned row alone.
C11_ContextTopPassingOrFallback ==
  MainAnswered =>
    /\ Len(inv.resp.context) <= MainContextLimit
    /\ IF PassingRows # {}
         THEN /\ Len(inv.resp.context) = Min(MainContextLimit, Cardinality(PassingRows))
              /\ \E f \in [1..Len(inv.resp.context) -> PassingRows] : ContextOfTopRows(f)
         ELSE /\ inv.resp.context = <<inv.found[1].chunk_text>>
              /\ \A k \in 1..Len(inv.found) : FoundSimilarity(1) >= FoundSimilarity(k)

\* more rows than MainContextLimit passed the threshold and the context was cut
C11_ContextCut ==
  /\ MainAnswered
  /\ Cardinality(PassingRows) > MainContextLimit
  /\ Len(inv.resp.context) = MainContextLimit

\* the search of the invocation succeeded
SearchSucceeded == HasEvent("search") /\ "search" \notin inv.failed

\* C12: when the search returns no row, the answer is the fixed "I don't
\* know" text with sources_count = 0 in the response, and the completion
\* model is not invoked.
C12_EmptyRetrievalAnswer ==
  (inv.op \in {"main", "clean"} /\ SearchSucceeded /\ inv.found = << >>) =>
    /\ inv.resp.status = 200
    /\ inv.resp.answer = IDontKnowNone
    /\ inv.resp.has_sources_count /\ inv.resp.sources_count = 0
    /\ ~HasEvent("complete")

\* the fixed answer without a sources_count in the response
C12_AnswerWithoutSourcesCount ==
  /\ inv.op = "main" /\ SearchSucceeded /\ inv.found = << >>
  /\ inv.resp.answer = IDontKnowNone
  /\ ~inv.resp.has_sources_count

\* C13: in a successful response sources_count is the number of chunks used
\* as context, confidence_scores has that many entries, and its i-th entry
\* is the similarity of the i-th chunk of the context.
C13_SourcesCountMatchesContext ==
  (inv.op \in {"main", "clean"} /\ inv.resp.status = 200 /\ inv.resp.has_sources_count) =>
    /\ inv.resp.sources_count = Len(SelectedTexts)
    /\ Len(inv.resp.confidence_scores) = Len(SelectedTexts)
    /\ \A i \in 1..Len(SelectedTexts) :
          \E k \in 1..Len(inv.found) :
             /\ inv.found[k].chunk_text = SelectedTexts[i]
             /\ inv.resp.confidence_scores[i] = FoundSimilarity(k)

\* one chunk in the context, two counted as sources
C13_FilteredRowCounted ==
  /\ MainAnswered
  /\ Len(inv.resp.context) = 1
  /\ inv.resp.sources_count = 2 /\ Len(inv.resp.confidence_scores) = 2

\* 1 - distance clamped to [0, 1], in hundredths
ClampedSimilarity(distance) == Max(0, Min(100, 100 - distance))

\* C14: every score returned is 1 minus the cosine distance clamped to
\* [0, 1]; none is below 0 or above 1.
C14_ScoresClamped ==
  (inv.op \in {"main", "clean", "enhanced"} /\ inv.resp.status = 200) =>
    /\ \A i \in 1..Len(inv.resp.confidence_scores) :
          inv.resp.confidence_scores[i] >= 0 /\ inv.resp.confidence_scores[i] <= 100
    /\ \A i \in 1..Len(inv.resp.results) :
          inv.resp.results[i].score >= 0 /\ inv.resp.results[i].score <= 100
    /\ inv.op \in {"main", "enhanced"} =>
          /\ \A i \in 1..Len(inv.resp.confidence_scores) :
                inv.resp.confidence_scores[i] =
                  ClampedSimilarity(CosDistance(inv.found[i].embedding, inv.emb))
          /\ \A i \in 1..Len(inv.resp.results) :
                inv.resp.results[i].score =
                  ClampedSimilarity(CosDistance(inv.found[i].embedding, inv.emb))

\* a negative score among the confidence_scores of a successful response
C14_NegativeScoreReturned ==
  /\ MainAnswered
  /\ \E i \in 1..Len(inv.resp.confidence_scores) : inv.resp.confidence_scores[i] < 0

\* the number of calls of the completion model in the invocation
CompletionCalls == Cardinality({i \in 1..Len(inv.trace) : inv.trace[i].kind = "complete"})

\* C15: when the completion fails on a non-empty context it is called once
\* more, and the query ends in a success outcome, not in an error.
C15_CompletionRetriedThenDegraded ==
  (inv.op = "main" /\ "complete" \in inv.failed) =>
    /\ CompletionCalls = 2
    /\ inv.resp.status = 200

\* one failed completion call and the query ends with status 500
C15_CompletionFailureIsError ==
  /\ inv.op = "main" /\ "complete" \in inv.failed
  /\ CompletionCalls = 1
  /\ inv.resp.status = 500

\* C16: a query whose embedding call or search fails ends in an error
\* outcome of status 500, never in a success response.
C16_UpstreamFailureIsError ==
  (inv.op \in {"main", "clean", "clean_chat", "enhanced"}
     /\ inv.failed \cap {"embed", "search"} # {}) =>
    inv.resp.status = 500

\* a failed search answered with status 200 and "I don't know"
C16_FailedSearchSwallowed ==
  /\ inv.op = "clean" /\ "search" \in inv.failed
  /\ inv.resp.status = 200 /\ inv.resp.answer = IDontKnowNone

\* C17: a query for a well-formed tenant without a vector partition ends
\* in a tenant-not-configured outcome (403 or 404), not in a success
\* response and not in a status 500.
C17_UnconfiguredTenantRejected ==
  (/\ inv.op \in {"main", "clean", "clean_chat"}
   /\ WellFormedId(inv.tenant)
   /\ TableName(inv.tenant.val) \notin DOMAIN store
   /\ HasEvent("search")) =>
    inv.resp.status \in {403, 404}

\* the query of a tenant without partition ends with status 500
C17_MissingPartitionIsStoreError ==
  /\ inv.op = "main" /\ inv.tenant = PyStr(initech)
  /\ HasEvent("search")
  /\ inv.resp.status = 500 /\ inv.resp.error = "Database query error"

\* C18: no error response of a query carries the message of the exception
\* of the store, the embedding or the completion service, nor the name of
\* a vector table.
C18_ErrorBodyGeneric ==
  (inv.op \in QueryOps /\ inv.resp.status >= 400) =>
    /\ inv.resp.raw = << >>
    /\ \A t \in Tables \cup {TableName(inv.tenant.val)} : ~Contains(inv.resp.raw, t)

\* the error body names the table of the tenant
C18_TableNameInErrorBody ==
  /\ inv.op = "main" /\ inv.tenant = PyStr(initech)
  /\ inv.resp.status = 500
  /\ inv.resp.raw = MissingRelation(TableName(initech))

(***************************************************************************)
(* Inserts of ids the table may already hold: the ingestions with uuid4    *)
(* drawing from all ids, and the upsert of test_pgvector.py.               *)
(***************************************************************************)
\* f"test-doc-{i}": an id no uuid4 value equals
TestDocId(i) == MaxRows + 1 + i

\* f"This is test document {i} with some random content ..."
TestText(i) == Repeat("t", i + 1)

\* INSERT ... ON CONFLICT (id) DO UPDATE SET embedding, chunk_text, metadata
UpsertRow(st, table, row) ==
  [st EXCEPT ![table] = {r \in @ : r.id # row.id} \cup {row}]

RECURSIVE UpsertRows(_, _, _, _)
\* the loop of insert_test_vectors: a statement that fails is reported and
\* the loop goes on
UpsertRows(st, table, rows, failing) ==
  IF rows = << >> THEN st
  ELSE UpsertRows(IF Len(rows) \in failing THEN st
                  ELSE UpsertRow(st, table, rows[Len(rows)]),
                  table, SubSeq(rows, 1, Len(rows) - 1), failing)

\* test_pgvector.py insert_test_vectors(..., tenant, count), for a table
\* whose id column is TEXT; the timestamp of the metadata is left out
insert_test_vectors(st, tenant, count, embs, failing) ==
  LET table == TableName(tenant)
      all == [i \in 1..count |->
                Row(TestDocId(i - 1), embs[i], TestText(i - 1),
                    Meta(PyNone, <<"test_pgvector.py">>, PyNone))]
      attempted == [i \in 1..count |->
                      [row |-> all[i],
                       status |-> IF i \in failing THEN "failed" ELSE "stored"]]
  IN IF table \notin DOMAIN st
       THEN Ingested(Out(<< >>, << >>, Resp(0, "Could not determine ID column type", "none")),
                     st)
     ELSE Ingested(Attempting(Out([i \in 1..count |-> Ev("insert", NoText, table)], << >>,
                                  Resp(0, "Insertion complete!", "none")),
                              attempted),
                   UpsertRows(st, table, [i \in 1..count |-> all[count + 1 - i]],
                              {count + 1 - i : i \in failing}))

InsertVecs == {"v0", "v1"}

ScriptTenants == {acme, initech}

\* python test_pgvector.py --tenant ... --count ...
TestInsertVectors ==
  /\ Idle
  /\ \E tenant \in ScriptTenants, count \in 1..MaxRows :
       \E embs \in [1..count -> InsertVecs], failing \in SUBSET (1..count) :
          LET g == insert_test_vectors(store, tenant, count, embs, failing)
          IN /\ RowCount(g.store) <= MaxRows
             /\ inv' = Invocation("test_insert", PyStr(tenant), PyNone, PyNone, g.out)
             /\ store' = g.store

InsertSyncClean ==
  SyncCleanOn(SyncAnswersOver(TRUE, 1, Docs, InsertVecs, IdSeqs(ChunkIds, 1, FALSE)), MaxRows)

InsertSyncEnhanced == SyncEnhancedOn(Docs, InsertVecs, ChunkIds, FALSE, MaxRows)

NextInsert == TestInsertVectors \/ InsertSyncClean \/ InsertSyncEnhanced \/ EndInvocation

SpecInsert == Init /\ [][NextInsert]_vars

InsertOps == {"test_insert", "clean_sync", "enhanced_sync"}

\* the rows of the table the invocation wrote to
TargetRows ==
  IF inv.tenant.type = "str" /\ TableName(inv.tenant.val) \in DOMAIN store
    THEN store[TableName(inv.tenant.val)] ELSE {}

\* C19: inserting a chunk whose id the tenant's table already holds replaces
\* that row: a table never holds two rows of one id, the row of an id carries
\* the text of the latest insert of that id, and no insert is refused because
\* its id exists.
C19_InsertReplacesExistingId ==
  /\ \A t \in DOMAIN store : \A r1, r2 \in store[t] : r1.id = r2.id => r1 = r2
  /\ inv.op \in InsertOps =>
       \A i \in DOMAIN inv.attempted :
          LET a == inv.attempted[i]
          IN /\ a.status # "conflict"
             /\ (a.status = "stored"
                   /\ \A j \in DOMAIN inv.attempted :
                        j > i => inv.attempted[j].row.id # a.row.id)
                  => \E r \in TargetRows :
                        r.id = a.row.id /\ r.chunk_text = a.row.chunk_text

\* an ingestion drew an id the table holds: the insert was refused and the
\* table kept the old text
C19_ExistingIdRefused ==
  /\ inv.op \in {"clean_sync", "enhanced_sync"}
  /\ \E i \in DOMAIN inv.attempted :
       /\ inv.attempted[i].status = "conflict"
       /\ \E r \in TargetRows :
            r.id = inv.attempted[i].row.id
              /\ r.chunk_text # inv.attempted[i].row.chunk_text

\* the upsert of the test script replaced the embedding of a row it had stored
C19_ScriptUpsertReplaced ==
  /\ inv.op = "test_insert"
  /\ \E i \in DOMAIN inv.attempted :
       /\ inv.attempted[i].status = "stored"
       /\ inv.attempted[i].row \in TargetRows
       /\ inv.attempted[i].row.embedding = "v1"

(***************************************************************************)
(* Ingestion of documents of several sections, one chunk each, where the   *)
(* embedding or the insert of one chunk may fail.                          *)
(***************************************************************************)
HeadingLetters == <<"a", "b", "c", "d", "e", "f", "g", "h", "i", "j", "k", "l">>

RECURSIVE SectionsDocument(_)
\* a document of n lines "## <letter>"
SectionsDocument(n) ==
  IF n = 0 THEN << >>
  ELSE SectionsDocument(n - 1) \o HeadingPrefix \o <<HeadingLetters[n], "\n">>

IngestDocs == {SectionsDocument(MaxChunks), SectionsDocument(2)}

IngestSyncEnhanced ==
  SyncEnhancedOn(IngestDocs, {"v0"}, 1..MaxChunks \ UsedIds(store), TRUE, MaxChunks)

NextIngest == IngestSyncEnhanced \/ EndInvocation

SpecIngest == Init /\ [][NextIngest]_vars

\* the chunks of the invocation whose embedding or insert failed
FailedChunks ==
  {i \in DOMAIN inv.attempted : inv.attempted[i].status \in {"failed", "conflict"}}

\* C20: when embedding or inserting one chunk fails during the ingestion of
\* a document, the ingestion goes on with the remaining chunks: every other
\* chunk is stored, and the result reports chunks_processed and
\* chunks_failed, whose sum is the number of chunks attempted.
C20_IngestionContinuesPastFailure ==
  (inv.op = "enhanced_sync" /\ Cardinality(FailedChunks) = 1) =>
     /\ \A i \in DOMAIN inv.attempted :
          i \notin FailedChunks => inv.attempted[i].row \in TargetRows
     /\ inv.resp.has_chunks_failed
     /\ inv.resp.chunks_processed = Len(inv.attempted) - 1
     /\ inv.resp.chunks_failed = 1
     /\ inv.resp.chunks_processed + inv.resp.chunks_failed = Len(inv.attempted)

\* the third chunk of a document of MaxChunks chunks failed: the first two are
\* stored, the later ones are not, and the answer is an error without counts
C20_LaterChunksDropped ==
  /\ inv.op = "enhanced_sync"
  /\ Len(inv.attempted) = MaxChunks
  /\ FailedChunks = {3}
  /\ \A i \in 1..2 : inv.attempted[i].row \in TargetRows
  /\ \A i \in 4..MaxChunks : inv.attempted[i].row \notin TargetRows
  /\ inv.resp.status = 400
  /\ ~inv.resp.has_chunks_failed
  /\ inv.resp.chunks_processed = 0

(***************************************************************************)
(* Two ingestion jobs at once on one tenant's partition.  Each insert is   *)
(* one statement of the Data API, so the jobs interleave insert by insert. *)
(* Here inv holds both jobs: of each the chunks it makes, how many it has  *)
(* handled and the rows it inserted, and the order of the steps.           *)
(***************************************************************************)
JobDocs == {SectionsDocument(2)}

\* the texts and metadata the job inserts, in order: sync_document makes a
\* chunk per section, trigger_knowledge_sync one chunk of the document
JobChunks(variant, tenant, document_key, doc) ==
  IF variant = "clean"
    THEN <<[text |-> doc, metadata |-> Meta(PyStr(tenant), document_key, PyNone)]>>
    ELSE [i \in 1..Len(DocumentChunks(doc)) |->
            [text |-> DocumentChunks(doc)[i].text,
             metadata |-> Meta(PyNone, document_key, PyStr(DocumentChunks(doc)[i].heading))]]

Job(variant, tenant, document_key, doc) ==
  [variant |-> variant, tenant |-> tenant,
   chunks |-> JobChunks(variant, tenant, document_key, doc),
   at |-> 0, inserted |-> {}]

JobPairs ==
  {[op |-> "jobs", jobs |-> <<Job(v1, acme, k, d1), Job(v2, acme, k, d2)>>, log |-> << >>] :
     v1 \in {"clean", "enhanced"}, v2 \in {"clean", "enhanced"},
     k \in DocumentKeys, d1 \in JobDocs, d2 \in JobDocs}

\* two POST /kb/sync requests for the tenant arrive
StartJobs ==
  /\ Idle
  /\ inv' \in JobPairs
  /\ UNCHANGED store

\* the plain INSERT of one row; a unique violation or a failure of the store
\* raises, and both functions leave their loop at the first exception
JobInsertRow(st, table, row, ok) ==
  IF ok /\ table \in DOMAIN st /\ ~DuplicateKey(st, table, row.id)
    THEN [stored |-> TRUE, store |-> InsertRows(st, table, <<row>>)]
    ELSE [stored |-> FALSE, store |-> st]

\* job j embeds its next chunk, draws its uuid4 and inserts the row
JobStep(j) ==
  /\ inv # NoInv
  /\ inv.op = "jobs"
  /\ inv.jobs[j].at < Len(inv.jobs[j].chunks)
  /\ \E id \in (1..MaxChunks) \ UsedIds(store), ok \in BOOLEAN :
       LET job == inv.jobs[j]
           chunk == job.chunks[job.at + 1]
           row == Row(id, "v0", chunk.text, chunk.metadata)
           g == JobInsertRow(store, TableName(job.tenant), row, ok)
       IN /\ store' = g.store
          /\ inv' = [inv EXCEPT
                       !.jobs[j].at = IF g.stored THEN @ + 1 ELSE Len(job.chunks),
                       !.jobs[j].inserted = IF g.stored THEN @ \cup {row} ELSE @,
                       !.log = Append(@, j)]

JobStepFirst == JobStep(1)

JobStepSecond == JobStep(2)

NextJobs == StartJobs \/ JobStepFirst \/ JobStepSecond

SpecJobs == Init /\ [][NextJobs]_vars

JobsRunning == inv # NoInv /\ inv.op = "jobs"

\* C21: for any interleaving of two ingestion jobs writing to one tenant's
\* partition, the table holds every row either job inserted successfully,
\* as inserted: no insert of one job overwrites, loses or collides with a
\* row of the other, the ids of the two jobs being distinct.
C21_ConcurrentInsertsKept ==
  JobsRunning =>
    /\ \A j \in 1..2 : \A r \in inv.jobs[j].inserted :
         /\ r \in store[TableName(inv.jobs[j].tenant)]
         /\ \A r2 \in store[TableName(inv.jobs[j].tenant)] : r2.id = r.id => r2 = r
    /\ \A r1 \in inv.jobs[1].inserted, r2 \in inv.jobs[2].inserted : r1.id # r2.id
    /\ RowCount(store)
         = Cardinality(inv.jobs[1].inserted) + Cardinality(inv.jobs[2].inserted)

\* both jobs ran to their end with their inserts interleaved (first, second,
\* first, second), each storing both of its chunks
C21_InterleavedJobsDone ==
  /\ JobsRunning
  /\ inv.log = <<1, 2, 1, 2>>
  /\ \A j \in 1..2 :
       /\ inv.jobs[j].at = Len(inv.jobs[j].chunks)
       /\ Cardinality(inv.jobs[j].inserted) = 2

(***************************************************************************)
(* document_summarizer/main.py: generate_summary and                       *)
(* summarize_large_document.  A text is known by its length; a chunk       *)
(* text[start:end] by its two positions.  Here inv holds the running       *)
(* summarization.                                                          *)
(***************************************************************************)
CHUNK_SIZE == 20000
CHUNK_OVERLAP == 300
DefaultMaxChunkSize == 100000
MinSummaryLen == 100
max_chunks == 10

\* start = end - CHUNK_OVERLAP if end < len(text) else end, without the overlap
NextStartNoOverlap(end, len, overlap) == end

\* start = end - CHUNK_OVERLAP if end < len(text) else end
NextStart(end, len, overlap) == IF end < len THEN end - overlap ELSE end

RECURSIVE SplitFrom(_, _, _, _)
\* the while loop of lines 389-392, from this start
SplitFrom(start, len, size, overlap) ==
  IF ~(start < len) THEN << >>
  ELSE LET end == Min(start + size, len)
       IN <<[start |-> start, end |-> end]>>
            \o SplitFrom(NextStart(end, len, overlap), len, size, overlap)

SplitChunks(len, size, overlap) == SplitFrom(0, len, size, overlap)

\* chunks = chunks[:max_chunks], with the warning logged when it cuts
CappedChunks(chunks) ==
  [chunks |-> SubSeq(chunks, 1, Min(max_chunks, Len(chunks))),
   warned |-> Len(chunks) > max_chunks]

\* MAX_CHUNK_SIZE of the environment: the default, and values below it
MaxChunkSizes == {DefaultMaxChunkSize, CHUNK_SIZE, CHUNK_SIZE \div 2}

TextLens ==
  {0, MinSummaryLen - 1, MinSummaryLen, CHUNK_SIZE \div 2 + 1, CHUNK_SIZE, CHUNK_SIZE + 1,
   DefaultMaxChunkSize, DefaultMaxChunkSize + 1,
   max_chunks * CHUNK_SIZE - (max_chunks - 1) * CHUNK_OVERLAP,
   max_chunks * CHUNK_SIZE - (max_chunks - 1) * CHUNK_OVERLAP + 1}

Summarization(len, max_chunk_size) ==
  [op |-> "summarize", len |-> len, MAX_CHUNK_SIZE |-> max_chunk_size,
   text |-> len, pc |-> "generate_summary", entries |-> 0, calls |-> 0,
   split |-> << >>, chunks |-> << >>, warned |-> FALSE, summarized |-> 0]

\* handle_document_event reaches generate_summary(text, title, bedrock_client)
SummarizeStart ==
  /\ Idle
  /\ \E len \in TextLens, m \in MaxChunkSizes : inv' = Summarization(len, m)
  /\ UNCHANGED store

Summarizing == inv # NoInv /\ inv.op = "summarize"

\* generate_summary, lines 470-586: the short text, the large text, or one
\* completion call, which returns a text or raises
GenerateSummary ==
  /\ Summarizing
  /\ inv.pc = "generate_summary"
  /\ UNCHANGED store
  /\ IF inv.text < MinSummaryLen
       THEN inv' = [inv EXCEPT !.pc = "returned"]
     ELSE IF inv.text > inv.MAX_CHUNK_SIZE
       THEN /\ inv.entries < MaxEntries
            /\ inv' = [inv EXCEPT !.pc = "summarize_large_document", !.entries = @ + 1]
     ELSE \E answer \in {"returned", "raised"} :
            inv' = [inv EXCEPT !.pc = answer, !.calls = @ + 1]

\* summarize_large_document, lines 370-468: the split, the cut to
\* max_chunks, a completion call per chunk and one for the final summary;
\* failing = 0 when no call raises, else the call that raises, and then the
\* fallback calls generate_summary(text[:CHUNK_SIZE], ...)
SummarizeLargeDocument ==
  /\ Summarizing
  /\ inv.pc = "summarize_large_document"
  /\ UNCHANGED store
  /\ LET split == SplitChunks(inv.text, CHUNK_SIZE, CHUNK_OVERLAP)
         cut == CappedChunks(split)
         n == Len(cut.chunks)
     IN \E failing \in 0..(n + 1) :
          inv' = [inv EXCEPT
                    !.split = split, !.chunks = cut.chunks, !.warned = cut.warned,
                    !.summarized = IF failing = 0 THEN n ELSE Min(failing, n),
                    !.calls = @ + (IF failing = 0 THEN n + 1 ELSE failing),
                    !.pc = IF failing = 0 THEN "returned" ELSE "generate_summary",
                    !.text = IF failing = 0 THEN @ ELSE Min(@, CHUNK_SIZE)]

\* lengths, chunk sizes and overlaps for the splitting loop alone: the small
\* ones, and the program's constants with the lengths above
SplitInputs ==
  {<<len, size, overlap>> \in (1..MaxSplitLen) \X (1..MaxSplitSize) \X (0..MaxSplitSize) :
     size > overlap}
    \cup {<<len, CHUNK_SIZE, CHUNK_OVERLAP>> : len \in TextLens \ {0}}

\* the splitting loop of lines 387-392 on its own
SplitText ==
  /\ Idle
  /\ UNCHANGED store
  /\ \E i \in SplitInputs :
       inv' = [op |-> "split", len |-> i[1], size |-> i[2], overlap |-> i[3],
               split |-> SplitChunks(i[1], i[2], i[3])]

NextSummary ==
  SummarizeStart \/ GenerateSummary \/ SummarizeLargeDocument \/ SplitText \/ EndInvocation

SpecSummary == Init /\ [][NextSummary]_vars

\* C26: for a non-empty text and CHUNK_SIZE > CHUNK_OVERLAP >= 0 the
\* splitting loop ends and yields chunks of which the first starts at 0, the
\* last ends at the end of the text, each has at most CHUNK_SIZE characters
\* and each after the first starts CHUNK_OVERLAP before the end of the
\* previous one, so that every character lies in at least one chunk.
C26_SplitCoversText ==
  (inv # NoInv /\ inv.op = "split") =>
     LET c == inv.split
         n == Len(c)
     IN /\ n >= 1
        /\ c[1].start = 0
        /\ c[n].end = inv.len
        /\ \A i \in 1..n :
             0 <= c[i].start /\ c[i].start < c[i].end /\ c[i].end - c[i].start <= inv.size
        /\ \A i \in 2..n : c[i].start = c[i - 1].end - inv.overlap
        /\ inv.len <= MaxSplitLen =>
             \A pos \in 0..(inv.len - 1) :
                \E i \in 1..n : c[i].start <= pos /\ pos < c[i].end

\* a text split into three or more chunks that overlap
C26_OverlappingChunks ==
  /\ inv # NoInv
  /\ inv.op = "split"
  /\ Len(inv.split) >= 3
  /\ inv.overlap > 0
  /\ inv.split[2].start < inv.split[1].end

\* C27: generate_summary ends for every text, every MAX_CHUNK_SIZE and every
\* pattern of completion failures: the fallback of summarize_large_document
\* never enters summarize_large_document again, so that function is entered
\* at most once in a summarization.
C27_FallbackNeverReenters == Summarizing => inv.entries <= 1

\* with MAX_CHUNK_SIZE below CHUNK_SIZE the fallback's text is still large:
\* summarize_large_document runs a second time on the same first chunk
C27_FallbackReentered ==
  /\ Summarizing
  /\ inv.MAX_CHUNK_SIZE < CHUNK_SIZE
  /\ inv.entries = 2
  /\ inv.pc = "summarize_large_document"
  /\ inv.text = CHUNK_SIZE

(***************************************************************************)
(* Large documents: max_chunks sections and one more, given to             *)
(* sync_document, next to the summarizer; and a text without headings      *)
(* longer than CHUNK_SIZE, given to the two ingestions.                    *)
(***************************************************************************)
LargeDocs == {SectionsDocument(max_chunks + 1), SectionsDocument(max_chunks)}

BudgetDocs ==
  {Repeat("x", CHUNK_SIZE + 1), <<"a">>, <<"b">>, <<"c">>, <<"d">>, <<"e">>, SectionsDocument(1)}

\* POST /kb/sync of lambda_function_enhanced for one of the documents; the
\* uuid4 of the chunks are the next numbers no row has
LargeSyncEnhancedOn(docs, cap) ==
  /\ Idle
  /\ \E tenant \in SyncTenantInputs, document_key \in DocumentKeys, d \in docs :
       LET n == Len(DocumentChunks(d))
           used == RowCount(store)
       IN /\ used + n <= cap
          /\ \E f \in 0..n :
               LET y == IngestAnswers(TRUE, d, TRUE, [i \in 1..n |-> "v0"],
                                      [i \in 1..n |-> used + i], f)
                   g == EnhancedHandleKbSync(store, tenant, document_key, y)
               IN /\ tenant.val \in BucketTenants
                  /\ inv' = Invocation("enhanced_sync", tenant, PyNone, PyNone, g.out)
                  /\ store' = g.store

LargeSyncEnhanced == LargeSyncEnhancedOn(LargeDocs, MaxLargeRows)

NextLarge ==
  \/ LargeSyncEnhanced
  \/ SummarizeStart
  \/ GenerateSummary
  \/ SummarizeLargeDocument
  \/ EndInvocation

SpecLarge == Init /\ [][NextLarge]_vars

BudgetSyncEnhanced == LargeSyncEnhancedOn(BudgetDocs, MaxBudgetRows)

BudgetSyncClean ==
  SyncCleanOn(SyncAnswersOver(TRUE, 1, BudgetDocs, {"v0"},
                              IdSeqs({RowCount(store) + 1}, 1, TRUE)),
              MaxBudgetRows)

NextBudget == BudgetSyncEnhanced \/ BudgetSyncClean \/ EndInvocation

SpecBudget == Init /\ [][NextBudget]_vars

SyncOps == {"clean_sync", "enhanced_sync"}

Ingesting == inv # NoInv /\ inv.op \in SyncOps

\* the chunks of the ingestion that were embedded or inserted
ProcessedChunks == {i \in DOMAIN inv.attempted : inv.attempted[i].status # "skipped"}

\* C22: for any document at most 10 chunks are processed (embedded, inserted
\* or summarized), and when the document made more than 10 chunks the
\* truncation is logged or recorded.
C22_AtMostTenChunksProcessed ==
  /\ Summarizing =>
       /\ Len(inv.chunks) <= max_chunks
       /\ inv.summarized <= max_chunks
       /\ Len(inv.split) > max_chunks => inv.warned
  /\ Ingesting =>
       /\ Cardinality(ProcessedChunks) <= max_chunks
       /\ Len(inv.attempted) > max_chunks => HasEvent("truncated")

\* sync_document embedded and stored all eleven chunks of a document of
\* eleven sections
C22_EleventhChunkStored ==
  /\ Ingesting
  /\ inv.op = "enhanced_sync"
  /\ Len(inv.attempted) = max_chunks + 1
  /\ \A i \in DOMAIN inv.attempted :
       inv.attempted[i].status = "stored" /\ inv.attempted[i].row \in TargetRows
  /\ inv.resp.chunks_processed = max_chunks + 1

\* no line of the text begins with '## '
NoHeadingLine(text) ==
  \A i \in DOMAIN SplitLines(text) : ~IsHeading(SplitLines(text)[i])

\* C23: a document without heading lines is split by the character budget:
\* every chunk given to the embedding call has at most 20,000 characters, and
\* a longer document is never embedded as one chunk.
C23_EmbeddedChunksWithinBudget ==
  Ingesting =>
     \A i \in DOMAIN inv.trace :
        (inv.trace[i].kind = "embed" /\ NoHeadingLine(inv.trace[i].text))
           => Len(inv.trace[i].text) <= CHUNK_SIZE

\* a text of CHUNK_SIZE + 1 characters without headings was embedded whole
\* and stored as one row
C23_WholeDocumentEmbedded ==
  /\ Ingesting
  /\ Len(inv.attempted) = 1
  /\ inv.attempted[1].status = "stored"
  /\ Len(inv.attempted[1].row.chunk_text) = CHUNK_SIZE + 1
  /\ \E i \in DOMAIN inv.trace :
       inv.trace[i].kind = "embed" /\ Len(inv.trace[i].text) = CHUNK_SIZE + 1

(***************************************************************************)
(* The chunking of sync_document on its own, for every document of a few   *)
(* lines taken from plain, blank and heading lines.                        *)
(***************************************************************************)
DocLines ==
  {<< >>, <<"a">>, <<" ">>, <<" ", "b">>, <<"#">>,
   HeadingPrefix, HeadingPrefix \o <<"a">>, HeadingPrefix \o <<"b", " ">>,
   HeadingPrefix \o <<"a">> \o HeadingPrefix \o <<"b">>,
   <<"#">> \o HeadingPrefix \o <<"a">>}

RECURSIVE LineText(_)
\* the lines, each followed by a newline
LineText(lines) ==
  IF lines = << >> THEN << >> ELSE lines[1] \o <<"\n">> \o LineText(Tail(lines))

\* '\n'.join(lines)
JoinLines(lines) == SubSeq(LineText(lines), 1, Len(LineText(lines)) - 1)

\* the documents read from the bucket: not empty (sync_document returns
\* before the chunking when content is empty)
ChunkDocs ==
  {JoinLines(ls) : ls \in UNION {[1..n -> DocLines] : n \in 1..MaxDocLines}} \ {<< >>}

\* sync_document, lines 130-165, applied to the content
ChunkDocument ==
  /\ Idle
  /\ UNCHANGED store
  /\ \E content \in ChunkDocs :
       inv' = [op |-> "chunk", content |-> content, chunks |-> DocumentChunks(content)]

NextChunk == ChunkDocument \/ EndInvocation

SpecChunk == Init /\ [][NextChunk]_vars

Chunking == inv # NoInv /\ inv.op = "chunk"

RECURSIVE ChunkTextLines(_)
\* the lines of the chunk texts, in order
ChunkTextLines(chunks) ==
  IF chunks = << >> THEN << >>
  ELSE SplitLines(chunks[1].text) \o ChunkTextLines(Tail(chunks))

\* the lines at which a chunk starts: the first line and every heading line
RunStarts(lines) == {i \in 1..Len(lines) : i = 1 \/ IsHeading(lines[i])}

\* the k-th run of lines: from the k-th start to the line before the next
Run(lines, k) ==
  LET first == CHOOSE i \in RunStarts(lines) :
                 Cardinality({j \in RunStarts(lines) : j < i}) = k - 1
      later == {j \in RunStarts(lines) : j > first}
      last == IF later = {} THEN Len(lines)
              ELSE (CHOOSE j \in later : \A j2 \in later : j <= j2) - 1
  IN SubSeq(lines, first, last)

\* C25 (as stated): the chunks of sync_document, in order, partition the
\* lines of the document: a chunk starts at each line beginning with '## ',
\* every line is in exactly one chunk, in order, none dropped or duplicated,
\* and the section of a chunk is the heading text of the heading line it
\* starts with (empty for the text before the first heading).
C25_ChunksPartitionLines ==
  Chunking =>
     LET lines == SplitLines(inv.content)
     IN /\ Len(inv.chunks) = Cardinality(RunStarts(lines))
        /\ ChunkTextLines(inv.chunks) = lines
        /\ \A k \in DOMAIN inv.chunks :
             LET line == SplitLines(inv.chunks[k].text)[1]
             IN inv.chunks[k].heading
                  = IF IsHeading(line)
                      THEN Strip(SubSeq(line, Len(HeadingPrefix) + 1, Len(line)))
                      ELSE << >>

\* C25 (amended): the chunks are, in order, the runs of lines that start at
\* the first line and at each line beginning with '## '; the text of a chunk
\* is its run, each line followed by a newline, with leading and trailing
\* whitespace stripped (blank lines at the edges of a run are not kept), and
\* its section is the heading line of the run with every '## ' removed and
\* stripped, or empty for a run that does not start with a heading.
C25_ChunksAreStrippedRuns ==
  Chunking =>
     LET lines == SplitLines(inv.content)
     IN /\ Len(inv.chunks) = Cardinality(RunStarts(lines))
        /\ \A k \in DOMAIN inv.chunks :
             /\ inv.chunks[k].text = Strip(LineText(Run(lines, k)))
             /\ inv.chunks[k].heading
                  = IF IsHeading(Run(lines, k)[1])
                      THEN Strip(RemoveHeadingPrefix(Run(lines, k)[1]))
                      ELSE << >>

\* a document of text, a blank line and a heading: two chunks, the blank
\* line at the end of the first run in neither
C25_BlankLineNotKept ==
  /\ Chunking
  /\ SplitLines(inv.content) = << <<"a">>, << >>, HeadingPrefix \o <<"a">> >>
  /\ Len(inv.chunks) = 2
  /\ inv.chunks[1].text = <<"a">>
  /\ inv.chunks[2].heading = <<"a">>

(***************************************************************************)
(* The mock /kb/query route of lambda_function_simple.py on its own, for   *)
(* queries that name the tenant itself, another tenant or none.            *)
(***************************************************************************)
StatusWord == <<"s","t","a","t","u","s">>

SimpleTenants ==
  {PyStr(acme), PyStr(globex), PyStr(initech), PyStr(umbrella),
   PyStr(<<"A","C","M","E">>), PyStr(<<"a","c","m","e","!">>), PyNone}

SimpleQueries ==
  {NormalQuery, PyStr(StatusWord), PyStr(acme \o <<" ">> \o StatusWord),
   PyStr(globex \o <<" ">> \o StatusWord), PyStr(<<"i","s"," ">> \o globex),
   PyStr(<<"G","L","O","B","E","X">>), PyStr(<<"A","c","m","e","?">>),
   PyStr(initech \o <<" ">> \o umbrella), PyStr(<<"n","e","x","t">>), PyStr(<< >>)}

SimpleRequests == SimpleTenants \X {PyNone} \X SimpleQueries

SimpleQuery == QuerySimpleOn(SimpleRequests)

NextSimple == SimpleQuery \/ EndInvocation

SpecSimple == Init /\ [][NextSimple]_vars

\* the route answered a query it classified as cross-tenant
ClassifiedCrossTenant ==
  /\ inv.op = "simple"
  /\ inv.resp.status = 200
  /\ CrossTenantQuery(inv.tenant.val, inv.query.val)

\* C24: when a query is classified as cross-tenant the response holds
\* exactly one entry, the fixed privacy message naming only the requesting
\* tenant, with the static confidence 0.99; nothing retrieved, nothing
\* specific to a tenant and no generic fallback entry is added.
C24_CrossTenantAnswerIsPrivacyOnly ==
  ClassifiedCrossTenant =>
     /\ Len(inv.resp.results) = 1
     /\ inv.resp.results[1].score = 99
     /\ inv.resp.results[1].metadata.source = <<"Privacy Policy">>
     /\ \E fixed \in {SubSeq(inv.resp.results[1].text, 1, 1)} :
          inv.resp.results[1].text = fixed \o inv.tenant.val \o <<".">>
     /\ \A i \in 1..Len(valid_tenants) :
          valid_tenants[i] # Lower(inv.tenant.val)
            => ~Contains(Lower(inv.resp.results[1].text), valid_tenants[i])
     /\ inv.found = << >>
     /\ ~HasEvent("search") /\ ~HasEvent("embed")

\* tenant acme asked for the status of globex, words that without the other
\* tenant's name select a mock entry of acme
C24_PrivacyMessageForStatusQuery ==
  /\ ClassifiedCrossTenant
  /\ inv.tenant.val = acme
  /\ inv.query.val = globex \o <<" ">> \o StatusWord
  /\ Len(inv.resp.results) = 1
  /\ inv.resp.results[1].score = 99

(***************************************************************************)
(* s3_helper/main.py: the chain of object-created events of a bucket.  A   *)
(* key is a sequence of name parts and "/" separators; a file name ends    *)
(* in an extension part or has none.  Here store is the bucket: its        *)
(* objects, the created events not yet delivered, the keys uploaded from   *)
(* outside and, in order, the keys handed to process_document.             *)
(***************************************************************************)
Slash == "/"

Extensions == {".pdf", ".md"}

RECURSIVE SplitPath(_)
\* key.split('/')
SplitPath(key) ==
  IF \A i \in 1..Len(key) : key[i] # Slash THEN <<key>>
  ELSE LET k == CHOOSE i \in 1..Len(key) : key[i] = Slash /\ \A j \in 1..(i-1) : key[j] # Slash
       IN <<SubSeq(key, 1, k-1)>> \o SplitPath(SubSeq(key, k+1, Len(key)))

RECURSIVE JoinPath(_)
\* '/'.join(parts)
JoinPath(parts) ==
  IF parts = << >> THEN << >>
  ELSE IF Len(parts) = 1 THEN parts[1]
  ELSE parts[1] \o <<Slash>> \o JoinPath(Tail(parts))

\* os.path.splitext(filename)
SplitExt(filename) ==
  IF Len(filename) > 1 /\ filename[Len(filename)] \in Extensions
    THEN [base_name |-> SubSeq(filename, 1, Len(filename) - 1),
          extension |-> <<filename[Len(filename)]>>]
    ELSE [base_name |-> filename, extension |-> << >>]

\* the directory of the processed versions, written into the directory of
\* the document itself
ProcessedPartsInPlace(dir_parts) == dir_parts

\* lines 247-251: the directory of the processed versions
ProcessedParts(dir_parts) ==
  IF \E i \in 1..Len(dir_parts) : dir_parts[i] = <<"raw">>
    THEN LET raw_index == CHOOSE i \in 1..Len(dir_parts) :
                            /\ dir_parts[i] = <<"raw">>
                            /\ \A j \in 1..(i-1) : dir_parts[j] # <<"raw">>
         IN SubSeq(dir_parts, 1, raw_index - 1) \o << <<"processed">> >>
    ELSE dir_parts \o << <<"processed">> >>

\* process_document(s3_client, bucket, key), lines 164-321: the keys it
\* writes; none when reading the object fails, when the key lies in a
\* processed directory or when the upload fails
ProcessDocument(key, ok) ==
  LET path_parts == SplitPath(key)
      filename == path_parts[Len(path_parts)]
      name == SplitExt(filename)
      dir_parts == SubSeq(path_parts, 1, Len(path_parts) - 1)
      processed_dir == JoinPath(ProcessedParts(dir_parts))
      written(suffix) ==
        (IF processed_dir # << >> THEN processed_dir ELSE <<"processed">>)
          \o <<Slash>> \o name.base_name \o <<suffix>> \o name.extension
  IN IF ~ok THEN [success |-> FALSE, written |-> {}]
     ELSE IF \E i \in 1..Len(dir_parts) : dir_parts[i] = <<"processed">>
       THEN [success |-> FALSE, written |-> {}]
     ELSE [success |-> TRUE,
           written |-> {written("_processed_summary"), written("_processed_kb")}]

\* lines 120-129: the record's key is one the handler processes
AcceptsKey(key) ==
  /\ Len(key) >= 2 /\ SubSeq(key, 1, 2) = <<"documents", Slash>>
  /\ ~Contains(key, <<Slash, "processed", Slash>>)

\* handle_s3_event for one record, lines 104-135
HandleRecord(key, ok) ==
  IF ~AcceptsKey(key) THEN [outcome |-> "skipped", written |-> {}]
  ELSE LET p == ProcessDocument(key, ok)
       IN [outcome |-> IF p.success THEN "processed" ELSE "failed", written |-> p.written]

UploadKeys ==
  {JoinPath(parts) : parts \in
     {<< <<"documents">>, <<"x", ".pdf">> >>,
      << <<"documents">>, <<"x">> >>,
      << <<"documents">>, <<"raw">>, <<"x", ".pdf">> >>,
      << <<"documents">>, <<"a">>, <<"raw">>, <<"x", ".md">> >>,
      << <<"documents">>, <<"raw">>, <<"a">>, <<"x", ".pdf">> >>,
      << <<"documents">>, <<"processed">> >>,
      << <<"documents">>, <<"raw">>, <<"processed">> >>,
      << <<"documents">>, <<"processed">>, <<"x", ".pdf">> >>,
      << <<"documents">>, << >>, <<"x", ".pdf">> >>,
      << <<"documents">>, << >> >>,
      << <<"other">>, <<"x", ".pdf">> >>,
      << <<"processed">>, <<"x", ".pdf">> >>,
      << <<"x", ".pdf">> >>}}

EmptyBucket == [objects |-> {}, events |-> {}, uploaded |-> {}, log |-> << >>]

InitEvents ==
  /\ store = EmptyBucket
  /\ inv = NoInv

\* a client puts a document; the bucket emits its created event
UploadDocument ==
  /\ Idle
  /\ Cardinality(store.uploaded) < MaxUploads
  /\ \E key \in UploadKeys \ store.objects :
       store' = [store EXCEPT !.objects = @ \cup {key}, !.events = @ \cup {key},
                              !.uploaded = @ \cup {key}]
  /\ UNCHANGED inv

\* the bucket delivers a created event to handle_s3_event; every object the
\* handler writes gets a created event of its own
HandleS3Event ==
  /\ Idle
  /\ \E key \in store.events, ok \in BOOLEAN :
       LET h == HandleRecord(key, ok)
       IN /\ inv' = [op |-> "s3_event", key |-> key, outcome |-> h.outcome,
                     written |-> h.written]
          /\ store' = [store EXCEPT
                         !.objects = @ \cup h.written,
                         !.events = (@ \ {key}) \cup h.written,
                         !.log = IF AcceptsKey(key) THEN Append(@, key) ELSE @]

NextEvents == UploadDocument \/ HandleS3Event \/ EndInvocation

SpecEvents == InitEvents /\ [][NextEvents]_vars

\* C28: the event chain does not loop: for every key handle_s3_event accepts
\* (it starts with 'documents/' and has no '/processed/'), both keys that
\* process_document writes contain '/processed/', so their created events
\* are skipped, and each uploaded document is processed at most once.
C28_WrittenKeysAreSkipped ==
  /\ (inv # NoInv /\ inv.op = "s3_event") =>
        /\ \A w \in inv.written :
             Contains(w, <<Slash, "processed", Slash>>) /\ ~AcceptsKey(w)
        /\ inv.outcome = "processed" => Cardinality(inv.written) = 2
  /\ \A i, j \in DOMAIN store.log : i # j => store.log[i] # store.log[j]
  /\ \A i \in DOMAIN store.log : store.log[i] \in store.uploaded

\* the created event of a key that process_document wrote for a document
\* under raw/ was delivered and skipped
C28_WrittenKeyEventSkipped ==
  /\ inv # NoInv
  /\ inv.op = "s3_event"
  /\ inv.outcome = "skipped"
  /\ inv.key \notin store.uploaded
  /\ inv.key = JoinPath(<< <<"documents">>, <<"processed">>,
                           <<"x", "_processed_kb", ".pdf">> >>)
  /\ store.log = <<JoinPath(<< <<"documents">>, <<"raw">>, <<"x", ".pdf">> >>)>>

\* ---------------------------------------------------------------------------
\* Summary buckets (document_summarizer/main.py summarize_document)
\* ---------------------------------------------------------------------------

\* a bucket name is a sequence of pieces: a "-" separator, a fixed word
\* without hyphens, or one character of a tenant slug
Hyphen == "-"

\* the characters of a tenant slug, one of each class the identifier pattern
\* ^[a-zA-Z0-9_-]{1,20}$ allows
SlugChars == {"a", "7", "_", Hyphen}

TenantSlugs == UNION {[1..n -> SlugChars] : n \in 1..MaxSlugLen}

Regions == {<<"eu", Hyphen, "west", Hyphen, "1">>, <<"us", Hyphen, "east", Hyphen, "1">>}

\* generate_presigned_url: f"cloudable-kb-dev-{aws_region}-{tenant}-20251114095518"
KbBucketName(aws_region, tenant) ==
  <<"cloudable", Hyphen, "kb", Hyphen, "dev", Hyphen>> \o aws_region
     \o <<Hyphen>> \o tenant \o <<Hyphen, "20251114095518">>

\* f"cloudable-{SUMMARY_BUCKET_SUFFIX}-{ENV}-{REGION}-{tenant_slug}" with the
\* defaults 'summaries', 'dev', 'us-east-1'
build_bucket_name(tenant_slug) ==
  <<"cloudable", Hyphen, "summaries", Hyphen, "dev", Hyphen,
    "us", Hyphen, "east", Hyphen, "1", Hyphen>> \o tenant_slug

\* re.search(r'-([^-]+)$', bucket): the pieces after the last hyphen, when
\* there is a hyphen and it is not the last piece; "unknown" otherwise
TenantFromBucket(bucket) ==
  LET hy == {i \in 1..Len(bucket) : bucket[i] = Hyphen}
      last == CHOOSE i \in hy : \A j \in hy : j <= i
  IN IF hy = {} \/ last = Len(bucket) THEN <<"unknown">>
     ELSE SubSeq(bucket, last + 1, Len(bucket))

\* the source buckets of the repository's naming schemes, with their owners
SourceBuckets ==
  {[bucket |-> KbBucketName(r, t), owner |-> t] : r \in Regions, t \in TenantSlugs}
    \cup {[bucket |-> build_bucket_name(t), owner |-> t] : t \in TenantSlugs}

InitSummaries ==
  /\ store = [summaries |-> {}]
  /\ inv = NoInv

\* summarize_document(bucket, key): the summary is put in the bucket named
\* after the tenant derived from the source bucket
SummarizeDocument ==
  /\ Idle
  /\ Cardinality(store.summaries) < MaxSummaries
  /\ \E src \in SourceBuckets :
       LET tenant == TenantFromBucket(src.bucket)
           summary_bucket == build_bucket_name(tenant)
       IN /\ inv' = [op |-> "summarize_document", bucket |-> src.bucket,
                     owner |-> src.owner, tenant |-> tenant,
                     summary_bucket |-> summary_bucket]
          /\ store' = [store EXCEPT !.summaries =
                         @ \cup {[bucket |-> summary_bucket, owner |-> src.owner]}]

NextSummaries == SummarizeDocument \/ EndInvocation

SpecSummaries == InitSummaries /\ [][NextSummaries]_vars

\* C29: summarize_document derives, from the source bucket name, the tenant
\* that owns the source bucket, for every allowed slug and every naming
\* scheme, so no summary bucket holds summaries of two different tenants.
C29_SummaryBucketIsOwners ==
  /\ (inv # NoInv /\ inv.op = "summarize_document") =>
        /\ inv.tenant = inv.owner
        /\ inv.summary_bucket = build_bucket_name(inv.owner)
  /\ \A a, b \in store.summaries : a.bucket = b.bucket => a.owner = b.owner

\* summaries of tenants "a" and "7", uploaded through generate_presigned_url,
\* are both in the bucket named after the timestamp suffix
C29_TwoTenantsShareBucket ==
  /\ [bucket |-> build_bucket_name(<<"20251114095518">>), owner |-> <<"a">>]
        \in store.summaries
  /\ [bucket |-> build_bucket_name(<<"20251114095518">>), owner |-> <<"7">>]
        \in store.summaries
  /\ inv # NoInv
  /\ inv.op = "summarize_document"
  /\ inv.bucket = KbBucketName(<<"eu", Hyphen, "west", Hyphen, "1">>, <<"7">>)
  /\ inv.tenant = <<"20251114095518">>

\* ---------------------------------------------------------------------------
\* Tenant roles (core/clean/tenant_rbac.py)
\* ---------------------------------------------------------------------------

\* a permission string is the sequence of its pieces around each ":"
Colon == ":"

\* class Permission
Permission ==
  [KB_READ |-> <<"kb", Colon, "read">>, KB_WRITE |-> <<"kb", Colon, "write">>,
   KB_ADMIN |-> <<"kb", Colon, "admin">>,
   DOC_READ |-> <<"doc", Colon, "read">>, DOC_WRITE |-> <<"doc", Colon, "write">>,
   DOC_ADMIN |-> <<"doc", Colon, "admin">>,
   CHAT_USE |-> <<"chat", Colon, "use">>, CHAT_ADMIN |-> <<"chat", Colon, "admin">>,
   ANALYTICS_VIEW |-> <<"analytics", Colon, "view">>,
   ANALYTICS_ADMIN |-> <<"analytics", Colon, "admin">>,
   TENANT_ADMIN |-> <<"tenant", Colon, "admin">>,
   USER_ADMIN |-> <<"user", Colon, "admin">>]

\* role name -> permission list (the description of a role is never read)
DEFAULT_ROLES ==
  [reader |-> <<Permission.KB_READ, Permission.DOC_READ, Permission.CHAT_USE>>,
   contributor |-> <<Permission.KB_READ, Permission.KB_WRITE, Permission.DOC_READ,
                     Permission.DOC_WRITE, Permission.CHAT_USE>>,
   analyst |-> <<Permission.KB_READ, Permission.DOC_READ, Permission.CHAT_USE,
                 Permission.ANALYTICS_VIEW>>,
   admin |-> <<Permission.KB_READ, Permission.KB_WRITE, Permission.KB_ADMIN,
               Permission.DOC_READ, Permission.DOC_WRITE, Permission.DOC_ADMIN,
               Permission.CHAT_USE, Permission.CHAT_ADMIN, Permission.ANALYTICS_VIEW,
               Permission.ANALYTICS_ADMIN, Permission.USER_ADMIN>>,
   tenant_owner |-> <<Permission.KB_READ, Permission.KB_WRITE, Permission.KB_ADMIN,
                      Permission.DOC_READ, Permission.DOC_WRITE, Permission.DOC_ADMIN,
                      Permission.CHAT_USE, Permission.CHAT_ADMIN,
                      Permission.ANALYTICS_VIEW, Permission.ANALYTICS_ADMIN,
                      Permission.USER_ADMIN, Permission.TENANT_ADMIN>>]

RbacTenants == {"t001", "t002"}
RbacUsers == {"u1", "u2"}
CustomRoleNames == {"reader", "auditor"}
AssignedRoleNames == {"reader", "tenant_owner", "auditor"}
CustomPermissions ==
  {<<Permission.KB_READ>>, <<Permission.TENANT_ADMIN>>, <<Permission.DOC_ADMIN>>}
RequiredPermissions ==
  {Permission.KB_READ, Permission.DOC_WRITE, Permission.TENANT_ADMIN, <<"export">>}

SetOf(list) == {list[i] : i \in DOMAIN list}

\* _tenant_roles = {} and _user_roles = {}
InitRbac ==
  /\ store = [tenant_roles |-> << >>, user_roles |-> << >>]
  /\ inv = NoInv

\* get_tenant_roles: a tenant seen for the first time gets a copy of the
\* default roles. The copy is shallow, and no function of the module changes
\* a role in place: a role is only ever replaced by a new entry.
get_tenant_roles(st, tenant_id) ==
  IF tenant_id \notin DOMAIN st.tenant_roles
    THEN [st EXCEPT !.tenant_roles = (tenant_id :> DEFAULT_ROLES) @@ @]
    ELSE st

create_custom_role(st, tenant_id, role_name, permissions) ==
  LET s1 == get_tenant_roles(st, tenant_id)
  IN [s1 EXCEPT !.tenant_roles[tenant_id] = (role_name :> permissions) @@ @]

assign_role_to_user(st, tenant_id, user_id, role_name) ==
  LET s1 == get_tenant_roles(st, tenant_id)
      s2 == IF user_id \notin DOMAIN s1.user_roles
              THEN [s1 EXCEPT !.user_roles = (user_id :> << >>) @@ @]
              ELSE s1
  IN IF role_name \notin DOMAIN s1.tenant_roles[tenant_id]
       THEN [store |-> s1, result |-> FALSE]
       ELSE [store |-> [s2 EXCEPT !.user_roles[user_id] = (tenant_id :> role_name) @@ @],
             result |-> TRUE]

\* the permissions of the role a user holds in the tenant asked about or,
\* without one, in any other tenant: a lookup that is not keyed by tenant
get_user_permissions_any_tenant(st, tenant_id, user_id) ==
  IF user_id \notin DOMAIN st.user_roles \/ DOMAIN st.user_roles[user_id] = {}
    THEN [store |-> st, permissions |-> {}]
    ELSE LET t == IF tenant_id \in DOMAIN st.user_roles[user_id] THEN tenant_id
                  ELSE CHOOSE x \in DOMAIN st.user_roles[user_id] : TRUE
             role_name == st.user_roles[user_id][t]
             s1 == get_tenant_roles(st, t)
         IN [store |-> s1,
             permissions |-> IF role_name \notin DOMAIN s1.tenant_roles[t] THEN {}
                             ELSE SetOf(s1.tenant_roles[t][role_name])]

get_user_permissions(st, tenant_id, user_id) ==
  IF user_id \notin DOMAIN st.user_roles
       \/ tenant_id \notin DOMAIN st.user_roles[user_id]
    THEN [store |-> st, permissions |-> {}]
    ELSE LET role_name == st.user_roles[user_id][tenant_id]
             s1 == get_tenant_roles(st, tenant_id)
         IN [store |-> s1,
             permissions |-> IF role_name \notin DOMAIN s1.tenant_roles[tenant_id] THEN {}
                             ELSE SetOf(s1.tenant_roles[tenant_id][role_name])]

\* required_permission.split(":")[0]
ResourceType(required_permission) ==
  LET cs == {i \in DOMAIN required_permission : required_permission[i] = Colon}
      first == CHOOSE i \in cs : \A j \in cs : i <= j
  IN SubSeq(required_permission, 1, first - 1)

check_permission(st, tenant_id, user_id, required_permission) ==
  LET g == get_user_permissions(st, tenant_id, user_id)
      user_permissions == g.permissions
      has_permission ==
        required_permission \in user_permissions
          \/ Permission.TENANT_ADMIN \in user_permissions
      has_colon == \E i \in DOMAIN required_permission : required_permission[i] = Colon
  IN [store |-> g.store,
      result |-> IF has_colon
                   THEN has_permission
                          \/ (ResourceType(required_permission) \o <<Colon, "admin">>)
                               \in user_permissions
                   ELSE has_permission]

\* the role entries of all tenants that differ from the default roles
CustomEntries(st) ==
  {<<t, r>> \in RbacTenants \X (CustomRoleNames \cup DOMAIN DEFAULT_ROLES) :
     /\ t \in DOMAIN st.tenant_roles
     /\ r \in DOMAIN st.tenant_roles[t]
     /\ (r \in DOMAIN DEFAULT_ROLES => st.tenant_roles[t][r] # DEFAULT_ROLES[r])}

Assignments(st) ==
  {<<u, t>> \in RbacUsers \X RbacTenants :
     u \in DOMAIN st.user_roles /\ t \in DOMAIN st.user_roles[u]}

RbacCall(op, tenant_id, user_id, name, result) ==
  [op |-> op, tenant |-> tenant_id, user |-> user_id, name |-> name, result |-> result]

CreateCustomRole ==
  /\ Idle
  /\ \E t \in RbacTenants, r \in CustomRoleNames, ps \in CustomPermissions :
       LET s1 == create_custom_role(store, t, r, ps)
       IN /\ Cardinality(CustomEntries(s1)) <= MaxCustomRoles
          /\ store' = s1
          /\ inv' = RbacCall("create_custom_role", t, "", r, TRUE)

AssignRoleToUser ==
  /\ Idle
  /\ \E t \in RbacTenants, u \in RbacUsers, r \in AssignedRoleNames :
       LET a == assign_role_to_user(store, t, u, r)
       IN /\ Cardinality(Assignments(a.store)) <= MaxAssignments
          /\ store' = a.store
          /\ inv' = RbacCall("assign_role_to_user", t, u, r, a.result)

CheckPermission ==
  /\ Idle
  /\ \E t \in RbacTenants, u \in RbacUsers, p \in RequiredPermissions :
       LET c == check_permission(store, t, u, p)
       IN /\ store' = c.store
          /\ inv' = RbacCall("check_permission", t, u, p, c.result)

NextRbac == CreateCustomRole \/ AssignRoleToUser \/ CheckPermission \/ EndInvocation

SpecRbac == InitRbac /\ [][NextRbac]_vars

\* what the claim allows: u holds in t a role whose list in t has p,
\* 'tenant:admin', or '<resource>:admin' for the resource type of p
Granted(st, t, u, p) ==
  /\ u \in DOMAIN st.user_roles
  /\ t \in DOMAIN st.user_roles[u]
  /\ t \in DOMAIN st.tenant_roles
  /\ st.user_roles[u][t] \in DOMAIN st.tenant_roles[t]
  /\ \E i \in DOMAIN st.tenant_roles[t][st.user_roles[u][t]] :
       LET q == st.tenant_roles[t][st.user_roles[u][t]][i]
       IN \/ q = p
          \/ q = <<"tenant", Colon, "admin">>
          \/ /\ Len(p) >= 2
             /\ p[2] = Colon
             /\ q = <<p[1], Colon, "admin">>

RbacAnswers(st) ==
  [x \in RbacTenants \X RbacUsers \X RequiredPermissions |->
     check_permission(st, x[1], x[2], x[3]).result]

\* C30: after any sequence of create_custom_role and assign_role_to_user
\* calls, check_permission(t, u, p) is true only if u was assigned in t a role
\* whose permission list in t contains p, 'tenant:admin' or the ':admin'
\* permission of p's resource type; a user with no role in t is denied; and
\* a role created, redefined or assigned in another tenant changes no answer
\* for t.
C30_PermissionIsTenantScoped ==
  /\ [](inv.op = "check_permission" =>
          /\ inv.result <=> Granted(store, inv.tenant, inv.user, inv.name)
          /\ <<inv.user, inv.tenant>> \notin Assignments(store) => ~inv.result)
  /\ [][inv'.op \in {"create_custom_role", "assign_role_to_user"} =>
          \A x \in DOMAIN RbacAnswers(store) :
            x[1] # inv'.tenant => RbacAnswers(store')[x] = RbacAnswers(store)[x]]_vars

\* u1 owns t001 and is denied in t002, where only u2 holds the redefined reader
C30_OwnerElsewhereDenied ==
  /\ inv.op = "check_permission"
  /\ inv.tenant = "t002"
  /\ inv.user = "u1"
  /\ inv.name = Permission.KB_READ
  /\ ~inv.result
  /\ "u1" \in DOMAIN store.user_roles
  /\ store.user_roles["u1"] = ("t001" :> "tenant_owner")
  /\ "u2" \in DOMAIN store.user_roles
  /\ store.user_roles["u2"] = ("t002" :> "reader")
  /\ "t002" \in DOMAIN store.tenant_roles
  /\ store.tenant_roles["t002"]["reader"] = <<Permission.TENANT_ADMIN>>

====
